---- MODULE Spec2Model ----
(***************************************************************************)
(* Audit trail subsystem of blockchain-evidence:                           *)
(*   services/auditLogger.service.js   (logAction, queryLogs, ...)         *)
(*   migrations/001_create_evidence_audit_logs.sql (table, RLS policies)   *)
(*                                                                         *)
(* JavaScript scalars that the service handles as strings are TLA+ strings;*)
(* the two reserved strings Undefined and Null stand for the JS values     *)
(* undefined and null.  The details argument can be of any JS type and is  *)
(* a record [t, v, message]: t is the JS type tag, v a literal, message    *)
(* the content of the key "message" when the value is {message: x}.        *)
(***************************************************************************)
EXTENDS Integers, Sequences, FiniteSets, TLC

VARIABLES
    store,      \* rows of evidence_audit_logs, in insertion order
    nextId,     \* next value of the store's id generator
    now,        \* the clock, in milliseconds
    called,     \* number of logAction invocations so far
    submitted,  \* number of inserts submitted to the store so far
    inflight,   \* logAction calls suspended at the await of the insert
    last,       \* the logAction call that settled most recently
    lastDml,    \* the UPDATE / DELETE statement the store executed most recently
    qres,       \* the result of queryLogs its caller holds
    sres,       \* the result of getLogSummary its caller holds
    vres,       \* the result of getEvidenceTrail or getUserActivity
    options,    \* the options the audit middleware was created with
    reqs        \* the requests that have passed through the audit middleware

vars ==
    <<store, nextId, now, called, submitted, inflight, last, lastDml, qres, sres,
      vres, options, reqs>>

-----------------------------------------------------------------------------
(* Bounds of the model *)

MaxCalls == 2    \* logAction invocations in a behaviour
MaxClock == 1    \* milliseconds the clock advances
MaxRows == 3     \* rows of the table a query runs against

-----------------------------------------------------------------------------
(* JavaScript values *)

Undefined == "<undefined>"
Null == "<null>"

\* JS truthiness of a string-or-absent scalar: undefined, null and "" are falsy
Truthy(x) == x \notin {Undefined, Null, ""}

\* requestBody is <<>>, or <<b>> for the details that have the request body b
JsVal(t, v) == [t |-> t, v |-> v, message |-> <<>>, requestBody |-> <<>>]

UndefinedD == JsVal("undefined", "")
NullD == JsVal("null", "")
EmptyMapD == JsVal("object", "{}")
MapD == JsVal("object", "{title,fileSize}")
ArrayD == JsVal("array", "[1,2]")
StringD == JsVal("string", "disk full")

\* the typeof operator: arrays and null are "object"
TypeOf(d) == IF d.t \in {"object", "array", "null"} THEN "object" ELSE d.t

\* the object literal { message: d }
MessageOf(d) ==
    [t |-> "object", v |-> "", message |-> <<d.t, d.v>>, requestBody |-> <<>>]

\* a key-value map, as opposed to an array, null or a primitive
IsMap(d) == d.t = "object"

\* The local time of a Date.  Where getLogSummary computes with Date the clock
\* is counted in hours.  A time zone is UTC until the instant `at` and `by`
\* hours off UTC from then on: at = 0, by = 0 is UTC all along.
UTC == [at |-> 0, by |-> 0]

Offset(zone, t) == IF t >= zone.at THEN zone.by ELSE 0

\* getHours(), getDate(): the fields of the local time of instant t
LocalTime(zone, t) == t + Offset(zone, t)

\* the instant of a local time; a local time that the transition skips or
\* repeats is read with the offset before the transition
UtcOf(zone, l) ==
    IF l < zone.at THEN l
    ELSE IF l - zone.by >= zone.at THEN l - zone.by
    ELSE l

\* d.setHours(d.getHours() + hours)
SetHours(zone, t, hours) == UtcOf(zone, LocalTime(zone, t) + hours)

\* d.setDate(d.getDate() + days)
SetDate(zone, t, days) == UtcOf(zone, LocalTime(zone, t) + 24 * days)

-----------------------------------------------------------------------------
(* Enumerations *)

ACTION_TYPES ==
    {"CREATE", "VERIFY", "ACCESS", "DOWNLOAD", "DELETE", "MODIFY", "TRANSFER",
     "CHAIN_OF_CUSTODY"}

ACTION_STATUS == {"SUCCESS", "FAILURE", "PENDING"}

USER_ROLES ==
    {"admin", "user", "investigator", "forensic_analyst", "legal_professional",
     "court_official", "evidence_manager", "auditor", "public_viewer"}

\* the values the CHECK constraint of column user_role admits
user_role_check == USER_ROLES \cup {"unknown"}

-----------------------------------------------------------------------------
(* The argument of logAction *)

\* logAction() and logAction(null): there is no argument object to destructure
NoArg(kind) ==
    [is |-> kind, actionType |-> Undefined, evidenceId |-> Undefined,
     userId |-> Undefined, userRole |-> Undefined, status |-> Undefined,
     details |-> UndefinedD, ipAddress |-> Undefined, caseId |-> Undefined]

\* the argument of the test "should accept valid log entry parameters"
BaseArg ==
    [is |-> "object", actionType |-> "CREATE", evidenceId |-> "EVID-1",
     userId |-> "0x1", userRole |-> "investigator", status |-> "SUCCESS",
     details |-> MapD, ipAddress |-> "10.0.0.1", caseId |-> "CASE-1"]

\* the arguments the writer is called with: BaseArg and its variations in one
\* field, the invalid ones of the tests among them
WriterArgs ==
    {BaseArg, NoArg("undefined"), NoArg("null")}
    \cup {[BaseArg EXCEPT !.actionType = x] : x \in {Undefined, "INVALID_TYPE", "VERIFY"}}
    \cup {[BaseArg EXCEPT !.userId = x] : x \in {Undefined, ""}}
    \cup {[BaseArg EXCEPT !.status = x] : x \in {Undefined, "INVALID_STATUS"}}
    \cup {[BaseArg EXCEPT !.userRole = x] : x \in {Undefined, "", "superuser"}}
    \cup {[BaseArg EXCEPT !.details = x] :
            x \in {UndefinedD, NullD, ArrayD, StringD}}
    \cup {[BaseArg EXCEPT !.evidenceId = Undefined, !.caseId = Undefined,
                          !.ipAddress = Undefined]}

-----------------------------------------------------------------------------
(* logAction: destructuring, validation, the log entry *)

\* the parameter pattern: destructuring undefined or null throws a TypeError
\* before the try block is entered
DestructureThrows(arg) == arg.is # "object"

\* the defaults of the parameter pattern apply to undefined fields only
Destructure(arg) ==
    [actionType |-> arg.actionType,
     evidenceId |-> IF arg.evidenceId = Undefined THEN Null ELSE arg.evidenceId,
     userId |-> arg.userId,
     userRole |-> arg.userRole,
     status |-> arg.status,
     details |-> IF arg.details = UndefinedD THEN EmptyMapD ELSE arg.details,
     ipAddress |-> IF arg.ipAddress = Undefined THEN Null ELSE arg.ipAddress,
     caseId |-> IF arg.caseId = Undefined THEN Null ELSE arg.caseId]

ValidActionType(actionType) == Truthy(actionType) /\ actionType \in ACTION_TYPES

\* a validator that tests only the presence of userId
ValidUserId_presence(userId) == userId # Undefined

ValidUserId(userId) == Truthy(userId)

\* a validator that forgets the membership test of status
ValidStatus_truthy(status) == Truthy(status)

ValidStatus(status) == Truthy(status) /\ status \in ACTION_STATUS

Validate(p) ==
    ValidActionType(p.actionType) /\ ValidUserId(p.userId) /\ ValidStatus(p.status)

\* userRole || 'unknown'
RoleOrUnknown(userRole) == IF Truthy(userRole) THEN userRole ELSE "unknown"

\* typeof details === 'object' ? details : { message: details }
DetailsOrMessage(details) ==
    IF TypeOf(details) = "object" THEN details ELSE MessageOf(details)

\* a log entry that leaves the case id out
logEntry_nocase(p, clock) ==
    [action_type |-> p.actionType,
     evidence_id |-> p.evidenceId,
     user_id |-> p.userId,
     user_role |-> RoleOrUnknown(p.userRole),
     status |-> p.status,
     details |-> DetailsOrMessage(p.details),
     ip_address |-> p.ipAddress,
     case_id |-> Null,
     timestamp |-> clock]

logEntry(p, clock) ==
    [action_type |-> p.actionType,
     evidence_id |-> p.evidenceId,
     user_id |-> p.userId,
     user_role |-> RoleOrUnknown(p.userRole),
     status |-> p.status,
     details |-> DetailsOrMessage(p.details),
     ip_address |-> p.ipAddress,
     case_id |-> p.caseId,
     timestamp |-> clock]   \* new Date().toISOString(), millisecond precision

-----------------------------------------------------------------------------
(* The table evidence_audit_logs *)

\* a table without the CHECK constraint of user_role
CheckConstraints_anyrole(e) ==
    /\ e.action_type \in ACTION_TYPES
    /\ e.user_id # Null
    /\ e.status \in ACTION_STATUS

\* NOT NULL and CHECK constraints of the columns
CheckConstraints(e) ==
    /\ e.action_type \in ACTION_TYPES
    /\ e.user_id # Null
    /\ e.user_role \in user_role_check
    /\ e.status \in ACTION_STATUS

\* the inserted row: the entry plus the generated primary key
NewRow(e, id) ==
    [id |-> id, timestamp |-> e.timestamp, action_type |-> e.action_type,
     evidence_id |-> e.evidence_id, case_id |-> e.case_id, user_id |-> e.user_id,
     user_role |-> e.user_role, status |-> e.status, details |-> e.details,
     ip_address |-> e.ip_address]

NoRow ==
    [id |-> 0, timestamp |-> 0, action_type |-> Undefined, evidence_id |-> Undefined,
     case_id |-> Undefined, user_id |-> Undefined, user_role |-> Undefined,
     status |-> Undefined, details |-> UndefinedD, ip_address |-> Undefined]

\* an update policy that admits every row
audit_logs_update_policy_open(row) == TRUE

\* row level security: FOR UPDATE USING (false), FOR DELETE USING (false)
audit_logs_update_policy(row) == FALSE

audit_logs_delete_policy(row) == FALSE

Rows == {store[i] : i \in 1..Len(store)}

-----------------------------------------------------------------------------
(* State *)

NoCall ==
    [cid |-> 0, arg |-> NoArg("undefined"), kind |-> "none", store |-> "none",
     data |-> NoRow]

NoDml == [op |-> "none", matched |-> 0, affected |-> 0]

\* queryLogs(), queryLogs({...}), queryLogs(null); limit and offset are <<>>
\* when absent and <<n>> when supplied
NoFilters ==
    [is |-> "object", evidenceId |-> Undefined, userId |-> Undefined,
     actionType |-> Undefined, status |-> Undefined, caseId |-> Undefined,
     startDate |-> Undefined, endDate |-> Undefined, limit |-> <<>>,
     offset |-> <<>>]

\* { logs, count, error } with the call it answers: the filters, the number
\* of rows of the table, and what the store did ("none": it was not asked)
QueryResult(f, n, storeDid, logs, count, error) ==
    [asked |-> TRUE, f |-> f, n |-> n, store |-> storeDid, logs |-> logs,
     count |-> count, error |-> error]

NoQuery ==
    [asked |-> FALSE, f |-> NoFilters, n |-> 0, store |-> "none", logs |-> <<>>,
     count |-> 0, error |-> Null]

\* the object getLogSummary resolved to, with the call it answers: keys are
\* the keys the object has, start is the instant the window starts at
SummaryResult(timeRange, zone, start, n, storeDid, value) ==
    [asked |-> TRUE, timeRange |-> timeRange, zone |-> zone, start |-> start,
     n |-> n, store |-> storeDid, value |-> value]

NoValue ==
    [keys |-> {}, timeRange |-> Undefined, totalActions |-> 0,
     byActionType |-> <<>>, byStatus |-> <<>>, error |-> Undefined]

NoSummary ==
    [asked |-> FALSE, timeRange |-> Undefined, zone |-> UTC, start |-> 0, n |-> 0,
     store |-> "none", value |-> NoValue]

\* { trail, error } or { activity, error } with the call it answers: queries
\* is the number of store queries the call issued
ViewResult(op, id, limit, queries, list, error) ==
    [asked |-> TRUE, op |-> op, id |-> id, limit |-> limit, queries |-> queries,
     list |-> list, error |-> error]

NoView ==
    [asked |-> FALSE, op |-> "none", id |-> Undefined, limit |-> <<>>,
     queries |-> 0, list |-> <<>>, error |-> Null]

\* createAuditMiddleware(): logOnRequest = false, logOnResponse = true,
\* excludePaths = []
DefaultOptions ==
    [logOnRequest |-> FALSE, logOnResponse |-> TRUE, excludePaths |-> {}]


Init ==
    /\ store = <<>>
    /\ nextId = 1
    /\ now = 0
    /\ called = 0
    /\ submitted = 0
    /\ inflight = {}
    /\ last = NoCall
    /\ lastDml = NoDml
    /\ qres = NoQuery
    /\ sres = NoSummary
    /\ vres = NoView
    /\ options = DefaultOptions
    /\ reqs = <<>>

\* the clock advances
Tick ==
    /\ now < MaxClock
    /\ now' = now + 1
    /\ UNCHANGED <<store, nextId, called, submitted, inflight, last, lastDml, qres>>
    /\ UNCHANGED <<sres, vres, options, reqs>>

-----------------------------------------------------------------------------
(* logAction *)

\* the settled call: kind is "data" (resolved to the row), "null" (resolved to
\* null) or "rejected" (the promise rejected); store is what the store did
Settled(cid, arg, kind, storeDid, data) ==
    [cid |-> cid, arg |-> arg, kind |-> kind, store |-> storeDid, data |-> data]

\* logAction from the call to its first suspension: the promise rejects when
\* the argument cannot be destructured, resolves to null when validation
\* fails, and otherwise the insert is submitted and the call awaits it.  The
\* audit middleware calls logAction and keeps its own record: reqs is left
\* to the caller.
logActionCall(arg) ==
    /\ called < MaxCalls
    /\ called' = called + 1
    /\ IF DestructureThrows(arg)
       THEN /\ last' = Settled(called + 1, arg, "rejected", "none", NoRow)
            /\ UNCHANGED <<submitted, inflight>>
       ELSE IF ~Validate(Destructure(arg))
       THEN /\ last' = Settled(called + 1, arg, "null", "none", NoRow)
            /\ UNCHANGED <<submitted, inflight>>
       ELSE /\ inflight' = inflight \cup
                  {[cid |-> called + 1, arg |-> arg,
                    entry |-> logEntry(Destructure(arg), now)]}
            /\ submitted' = submitted + 1
            /\ UNCHANGED last
    /\ UNCHANGED <<store, nextId, now, lastDml, qres, sres, vres, options>>

\* the insert succeeded: { data, error: null }, the call returns data
InsertOk(w) ==
    /\ store' = Append(store, NewRow(w.entry, nextId))
    /\ nextId' = nextId + 1
    /\ inflight' = inflight \ {w}
    /\ last' = Settled(w.cid, w.arg, "data", "inserted", NewRow(w.entry, nextId))
    /\ UNCHANGED submitted

\* a writer that submits the insert again when it failed
InsertFailed_retry(w, storeDid) ==
    /\ inflight' = inflight
    /\ submitted' = submitted + 1
    /\ UNCHANGED <<store, nextId, last>>

\* the insert failed, with an error result (if (error) ... return null) or
\* with an exception (catch ... return null): nothing is persisted and the
\* insert is not submitted again
InsertFailed(w, storeDid) ==
    /\ inflight' = inflight \ {w}
    /\ last' = Settled(w.cid, w.arg, "null", storeDid, NoRow)
    /\ UNCHANGED <<store, nextId, submitted>>

\* logAction resumed after the await: the store is "up" and executes the
\* insert, or answers with an error result, or the client throws
logActionResume(w, outcome) ==
    /\ w \in inflight
    /\ IF outcome = "up" /\ CheckConstraints(w.entry)
       THEN InsertOk(w)
       ELSE IF outcome = "up"
       THEN InsertFailed(w, "constraint")
       ELSE InsertFailed(w, outcome)
    /\ UNCHANGED <<now, called, lastDml, qres, sres, vres, options, reqs>>

StoreOutcomes == {"up", "error", "throw"}

-----------------------------------------------------------------------------
(* Statements other clients of the store submit *)

ApplyUpdate(row, id, status) ==
    IF row.id = id /\ audit_logs_update_policy(row)
    THEN [row EXCEPT !.status = status]
    ELSE row

\* UPDATE evidence_audit_logs SET status = s WHERE id = i
storeUpdate(id, status) ==
    /\ store' = [i \in 1..Len(store) |-> ApplyUpdate(store[i], id, status)]
    /\ lastDml' =
         [op |-> "update",
          matched |-> Cardinality({i \in 1..Len(store) : store[i].id = id}),
          affected |-> Cardinality({i \in 1..Len(store) : store'[i] # store[i]})]
    /\ UNCHANGED <<nextId, now, called, submitted, inflight, last, qres>>
    /\ UNCHANGED <<sres, vres, options, reqs>>

KeepRow(row, id) == ~(row.id = id /\ audit_logs_delete_policy(row))

\* DELETE FROM evidence_audit_logs WHERE id = i
storeDelete(id) ==
    /\ store' = SelectSeq(store, LAMBDA row : KeepRow(row, id))
    /\ lastDml' =
         [op |-> "delete",
          matched |-> Cardinality({i \in 1..Len(store) : store[i].id = id}),
          affected |-> Len(store) - Len(store')]
    /\ UNCHANGED <<nextId, now, called, submitted, inflight, last, qres>>
    /\ UNCHANGED <<sres, vres, options, reqs>>

-----------------------------------------------------------------------------
(* queryLogs *)

DefaultLimit == 100
DefaultOffset == 0

\* the ISO 8601 strings of the first milliseconds of the epoch; a string that
\* is not in the table is not a date
IsoStrings ==
    <<"1970-01-01T00:00:00.000Z", "1970-01-01T00:00:00.001Z",
      "1970-01-01T00:00:00.002Z", "1970-01-01T00:00:00.003Z",
      "1970-01-01T00:00:00.004Z">>

\* new Date(x) is an Invalid Date, and toISOString() throws a RangeError
InvalidDate(x) == \A i \in 1..Len(IsoStrings) : IsoStrings[i] # x

\* new Date(x).toISOString() read by the store as a timestamptz, in ms
DateValue(x) == (CHOOSE i \in 1..Len(IsoStrings) : IsoStrings[i] = x) - 1

\* filters = {} applies to a missing argument; null cannot be destructured
FiltersThrow(f) ==
    \/ f.is = "null"
    \/ f.is = "object" /\ Truthy(f.startDate) /\ InvalidDate(f.startDate)
    \/ f.is = "object" /\ Truthy(f.endDate) /\ InvalidDate(f.endDate)

FiltersOf(f) == IF f.is = "undefined" THEN NoFilters ELSE f

LimitOf(f) == IF f.limit = <<>> THEN DefaultLimit ELSE f.limit[1]

OffsetOf(f) == IF f.offset = <<>> THEN DefaultOffset ELSE f.offset[1]

\* a query builder that applies .gt() for startDate
RowMatches_gt(row, f) ==
    /\ Truthy(f.evidenceId) => row.evidence_id = f.evidenceId
    /\ Truthy(f.userId) => row.user_id = f.userId
    /\ Truthy(f.actionType) => row.action_type = f.actionType
    /\ Truthy(f.status) => row.status = f.status
    /\ Truthy(f.caseId) => row.case_id = f.caseId
    /\ Truthy(f.startDate) => row.timestamp > DateValue(f.startDate)
    /\ Truthy(f.endDate) => row.timestamp <= DateValue(f.endDate)

\* the conditions the query builder has accumulated: if (x) query = query.eq(...)
RowMatches(row, f) ==
    /\ Truthy(f.evidenceId) => row.evidence_id = f.evidenceId
    /\ Truthy(f.userId) => row.user_id = f.userId
    /\ Truthy(f.actionType) => row.action_type = f.actionType
    /\ Truthy(f.status) => row.status = f.status
    /\ Truthy(f.caseId) => row.case_id = f.caseId
    /\ Truthy(f.startDate) => row.timestamp >= DateValue(f.startDate)
    /\ Truthy(f.endDate) => row.timestamp <= DateValue(f.endDate)

\* ascending order
OrderedBefore_ascending(a, b) == a.timestamp <= b.timestamp

\* .order('timestamp', { ascending: false }): a comes no later than b
OrderedBefore(a, b) == a.timestamp >= b.timestamp

\* the orders in which the store may return the matching rows: every
\* arrangement of them that respects the ORDER BY clause
Orderings(rows, f) ==
    LET M == {i \in 1..Len(rows) : RowMatches(rows[i], f)}
        k == Cardinality(M)
    IN  {[i \in 1..k |-> rows[p[i]]] :
            p \in {q \in [1..k -> M] :
                     /\ \A i, j \in 1..k : i # j => q[i] # q[j]
                     /\ \A i, j \in 1..k :
                          i < j => OrderedBefore(rows[q[i]], rows[q[j]])}}

\* the bounds queryLogs passes to .range(): offset and offset + limit - 1
RangeFrom(f) == OffsetOf(f)

\* a last position that is one too far
RangeTo_plusone(f) == OffsetOf(f) + LimitOf(f)

RangeTo(f) == OffsetOf(f) + LimitOf(f) - 1

\* .range(from, to): the rows at positions from .. to, counted from 0
Range(seq, from, to) ==
    IF from >= Len(seq) \/ to < from
    THEN <<>>
    ELSE SubSeq(seq, from + 1, IF to + 1 < Len(seq) THEN to + 1 ELSE Len(seq))

\* a count of the rows of the returned page
ExactCount_page(ord, f) == Len(Range(ord, RangeFrom(f), RangeTo(f)))

\* .select('*', { count: 'exact' }): the number of rows the conditions match,
\* whatever the range
ExactCount(ord, f) == Len(ord)

\* queryLogs: one store query, which returns the matching rows in one of the
\* orders the ORDER BY clause allows.  Every failure, of the filters or of
\* the store, becomes { logs: [], count: 0, error }.  Queries are taken one
\* at a time: a query changes nothing, so queries that overlap see the
\* tables that queries in a row see.  A derived view calls queryLogs and
\* keeps its own result: vres is left to the caller.
queryLogs(f, outcome) ==
    /\ ~qres.asked
    /\ IF FiltersThrow(f)
       THEN qres' = QueryResult(f, Len(store), "none", <<>>, 0,
                        IF f.is = "null" THEN "TypeError" ELSE "Invalid time value")
       ELSE IF outcome # "up"
       THEN qres' = QueryResult(f, Len(store), outcome, <<>>, 0, "store failure")
       ELSE \E ord \in Orderings(store, FiltersOf(f)) :
              qres' = QueryResult(f, Len(store), outcome,
                         Range(ord, RangeFrom(FiltersOf(f)), RangeTo(FiltersOf(f))),
                         ExactCount(ord, FiltersOf(f)), Null)
    /\ UNCHANGED <<store, nextId, now, called, submitted, inflight, last, lastDml>>
    /\ UNCHANGED <<sres, options, reqs>>

\* the caller is done with the result: the route has sent its response
queryDone ==
    /\ qres.asked
    /\ qres' = NoQuery
    /\ UNCHANGED <<store, nextId, now, called, submitted, inflight, last, lastDml>>
    /\ UNCHANGED <<sres, vres, options, reqs>>

-----------------------------------------------------------------------------
(* getLogSummary *)

\* timeRange = '24h' applies to a missing argument only
TimeRangeOf(timeRange) == IF timeRange = Undefined THEN "24h" ELSE timeRange

\* the switch over timeRange: the instant the window starts at, computed on
\* the local time of the clock
startDate(zone, clock, timeRange) ==
    CASE timeRange = "1h" -> SetHours(zone, clock, -1)
      [] timeRange = "24h" -> SetHours(zone, clock, -24)
      [] timeRange = "7d" -> SetDate(zone, clock, -7)
      [] timeRange = "30d" -> SetDate(zone, clock, -30)
      [] OTHER -> SetHours(zone, clock, -24)

\* a window that leaves out the events of its first instant
SummaryData_gt(rows, start) == SelectSeq(rows, LAMBDA row : row.timestamp > start)

\* .select('action_type, status').gte('timestamp', startDate.toISOString())
SummaryData(rows, start) == SelectSeq(rows, LAMBDA row : row.timestamp >= start)

\* a map with every action type at 0, then incremented once for every row
\* whose action_type is a key of the map
CountByActionType(data) ==
    [k \in ACTION_TYPES |->
        Cardinality({i \in 1..Len(data) : data[i].action_type = k})]

\* the same for the three statuses
CountByStatus(data) ==
    [k \in ACTION_STATUS |-> Cardinality({i \in 1..Len(data) : data[i].status = k})]

\* the summary object
Summary(timeRange, data) ==
    [keys |-> {"timeRange", "totalActions", "byActionType", "byStatus"},
     timeRange |-> timeRange,
     totalActions |-> Len(data),
     byActionType |-> CountByActionType(data),
     byStatus |-> CountByStatus(data),
     error |-> Undefined]

\* a failure answered with counts, all 0, and no error
SummaryError_counts(message) == Summary("24h", <<>>)

\* { error: error.message }
SummaryError(message) == [NoValue EXCEPT !.keys = {"error"}, !.error = message]

\* getLogSummary: one store query for the rows of the window; a failure of
\* the store becomes { error }
getLogSummary(timeRange, zone, outcome) ==
    /\ ~sres.asked
    /\ LET start == startDate(zone, now, TimeRangeOf(timeRange))
       IN  sres' = SummaryResult(timeRange, zone, start, Len(store), outcome,
                      IF outcome # "up"
                      THEN SummaryError("store failure")
                      ELSE Summary(TimeRangeOf(timeRange), SummaryData(store, start)))
    /\ UNCHANGED <<store, nextId, now, called, submitted, inflight, last, lastDml>>
    /\ UNCHANGED <<qres, vres, options, reqs>>

\* the caller is done with the summary
summaryDone ==
    /\ sres.asked
    /\ sres' = NoSummary
    /\ UNCHANGED <<store, nextId, now, called, submitted, inflight, last, lastDml>>
    /\ UNCHANGED <<qres, vres, options, reqs>>

-----------------------------------------------------------------------------
(* getEvidenceTrail, getUserActivity *)

TrailLimit == 500

ActivityLimit == 50

\* filters that select by case
TrailFilters_case(evidenceId) ==
    [NoFilters EXCEPT !.caseId = evidenceId, !.limit = <<TrailLimit>>]

\* { evidenceId, limit: 500 }
TrailFilters(evidenceId) ==
    [NoFilters EXCEPT !.evidenceId = evidenceId, !.limit = <<TrailLimit>>]

\* filters that leave the limit out
ActivityFilters_nolimit(userId, limit) == [NoFilters EXCEPT !.userId = userId]

\* { userId, limit }, limit = 50 when the argument is missing
ActivityFilters(userId, limit) ==
    [NoFilters EXCEPT !.userId = userId,
                      !.limit = IF limit = <<>> THEN <<ActivityLimit>> ELSE limit]

getEvidenceTrail(evidenceId, outcome) ==
    /\ ~vres.asked
    /\ IF ~Truthy(evidenceId)
       THEN /\ vres' = ViewResult("getEvidenceTrail", evidenceId, <<>>, 0, <<>>,
                                  "Evidence ID is required")
            /\ UNCHANGED <<store, nextId, now, called, submitted, inflight, last>>
            /\ UNCHANGED <<lastDml, qres, sres, options, reqs>>
       ELSE /\ queryLogs(TrailFilters(evidenceId), outcome)
            /\ vres' = ViewResult("getEvidenceTrail", evidenceId, <<>>, 1,
                                  qres'.logs, qres'.error)

getUserActivity(userId, limit, outcome) ==
    /\ ~vres.asked
    /\ IF ~Truthy(userId)
       THEN /\ vres' = ViewResult("getUserActivity", userId, limit, 0, <<>>,
                                  "User ID is required")
            /\ UNCHANGED <<store, nextId, now, called, submitted, inflight, last>>
            /\ UNCHANGED <<lastDml, qres, sres, options, reqs>>
       ELSE /\ queryLogs(ActivityFilters(userId, limit), outcome)
            /\ vres' = ViewResult("getUserActivity", userId, limit, 1,
                                  qres'.logs, qres'.error)

\* the caller is done with the trail or the activity
viewDone ==
    /\ vres.asked
    /\ vres' = NoView
    /\ qres' = NoQuery
    /\ UNCHANGED <<store, nextId, now, called, submitted, inflight, last, lastDml>>
    /\ UNCHANGED <<sres, options, reqs>>

-----------------------------------------------------------------------------
(* The audit middleware: the request and what is derived from it *)

\* A path or URL is a sequence of pieces, each piece a string; a string
\* that is searched for is a sequence of pieces too.
\* s.includes(t)
Includes(s, t) ==
    \E i \in 0..(Len(s) - Len(t)) : SubSeq(s, i + 1, i + Len(t)) = t

\* a || b
Or(a, b) == IF Truthy(a) THEN a ELSE b

\* an object of the request that is absent: req.params, req.body, ...
Absent(o) == o.is # "object"

\* o?.field
Chain(o, field) == IF Absent(o) THEN Undefined ELSE o[field]

Ids(evidenceId, caseId) ==
    [is |-> "object", evidenceId |-> evidenceId, caseId |-> caseId]

NoIds == [is |-> "undefined", evidenceId |-> Undefined, caseId |-> Undefined]

\* The value of a field of the request body: t is its JS type; a string is
\* len characters long, the first kept of them the client's, the rest the
\* marker
FieldValue(t, len, kept, marker) ==
    [t |-> t, len |-> len, kept |-> kept, marker |-> marker]

\* the field is not there
NoField == FieldValue("undefined", 0, 0, "")

\* a string of len characters
Text(len) == FieldValue("string", len, len, "")

\* the number 0
Zero == FieldValue("number", 0, 0, "")

\* an object with fields of its own, a password among them
Nested == FieldValue("object", 0, 0, "")

\* the truthiness of the value of a field
TruthyField(value) ==
    CASE value.t = "string" -> value.len > 0
      [] value.t = "object" -> TRUE
      [] OTHER -> FALSE

sensitiveFields == {"password", "token", "secret", "key", "fileData", "file_data"}

\* the names of the fields of a request body, evidenceId and caseId apart
FieldNames == sensitiveFields \cup {"title", "notes"}

NoFields == [name \in FieldNames |-> NoField]

\* req.body: the ids and the other fields
Payload(evidenceId, caseId, fields) ==
    [is |-> "object", evidenceId |-> evidenceId, caseId |-> caseId,
     fields |-> fields]

NoPayload ==
    [is |-> "undefined", evidenceId |-> Undefined, caseId |-> Undefined,
     fields |-> NoFields]

\* req.headers: x-forwarded-for is the sequence of its comma separated
\* entries, <<>> when the header is absent
Headers(xForwardedFor, xRealIp, xUserWallet) ==
    [is |-> "object", xForwardedFor |-> xForwardedFor, xRealIp |-> xRealIp,
     xUserWallet |-> xUserWallet]

NoHeaders ==
    [is |-> "undefined", xForwardedFor |-> <<>>, xRealIp |-> Undefined,
     xUserWallet |-> Undefined]

\* req.connection, req.socket
Peer(remoteAddress) == [is |-> "object", remoteAddress |-> remoteAddress]

NoPeer == [is |-> "undefined", remoteAddress |-> Undefined]

\* req.user, attached by the authentication middleware
User(wallet_address, id, role) ==
    [is |-> "object", wallet_address |-> wallet_address, id |-> id, role |-> role]

NoUser ==
    [is |-> "undefined", wallet_address |-> Undefined, id |-> Undefined,
     role |-> Undefined]

\* req.caseData
CaseData(case_id) == [is |-> "object", case_id |-> case_id]

NoCaseData == [is |-> "undefined", case_id |-> Undefined]

\* x.trim() of the entries of x-forwarded-for
Trim(x) ==
    CASE x = " " -> ""
      [] x = " 10.0.0.1" -> "10.0.0.1"
      [] OTHER -> x

\* req.headers['x-forwarded-for']?.split(',')[0]?.trim()
FirstForwarded(headers) ==
    IF headers.xForwardedFor = <<>> THEN Undefined
    ELSE Trim(headers.xForwardedFor[1])

getClientIp(req) ==
    Or(FirstForwarded(req.headers),
       Or(req.headers.xRealIp,
          Or(Chain(req.connection, "remoteAddress"),
             Or(Chain(req.socket, "remoteAddress"), "unknown"))))

\* a user info that prefers the id of the identity to its wallet address
getUserInfo_idfirst(req) ==
    IF ~Absent(req.user)
    THEN [userId |-> Or(req.user.id, req.user.wallet_address),
          userRole |-> Or(req.user.role, "user")]
    ELSE [userId |-> Or(req.headers.xUserWallet, "anonymous"),
          userRole |-> Or(req.userRole, "unknown")]

getUserInfo(req) ==
    IF ~Absent(req.user)
    THEN [userId |-> Or(req.user.wallet_address, req.user.id),
          userRole |-> Or(req.user.role, "user")]
    ELSE [userId |-> Or(req.headers.xUserWallet, "anonymous"),
          userRole |-> Or(req.userRole, "unknown")]

\* method.toLowerCase()
toLowerCase(method) ==
    CASE method \in {"POST", "Post", "post"} -> "post"
      [] method \in {"GET", "get"} -> "get"
      [] method \in {"PUT", "put"} -> "put"
      [] method \in {"PATCH", "patch"} -> "patch"
      [] method \in {"DELETE", "delete"} -> "delete"
      [] method = "OPTIONS" -> "options"
      [] OTHER -> method

\* an action type that compares the method as it is spelled
getActionType_exact(method, path) ==
    IF Includes(path, <<"/verify">>) THEN "VERIFY"
    ELSE IF Includes(path, <<"/download">>) THEN "DOWNLOAD"
    ELSE IF Includes(path, <<"/transfer">>) THEN "TRANSFER"
    ELSE IF Includes(path, <<"/custody">>) THEN "CHAIN_OF_CUSTODY"
    ELSE CASE method = "post" -> "CREATE"
           [] method = "get" -> "ACCESS"
           [] method \in {"put", "patch"} -> "MODIFY"
           [] method = "delete" -> "DELETE"
           [] OTHER -> "ACCESS"

getActionType(method, path) ==
    IF Includes(path, <<"/verify">>) THEN "VERIFY"
    ELSE IF Includes(path, <<"/download">>) THEN "DOWNLOAD"
    ELSE IF Includes(path, <<"/transfer">>) THEN "TRANSFER"
    ELSE IF Includes(path, <<"/custody">>) THEN "CHAIN_OF_CUSTODY"
    ELSE CASE toLowerCase(method) = "post" -> "CREATE"
           [] toLowerCase(method) = "get" -> "ACCESS"
           [] toLowerCase(method) \in {"put", "patch"} -> "MODIFY"
           [] toLowerCase(method) = "delete" -> "DELETE"
           [] OTHER -> "ACCESS"

\* an evidence id that prefers the query string to the body
getEvidenceId_queryfirst(req) ==
    IF Truthy(req.params.evidenceId) THEN req.params.evidenceId
    ELSE IF Truthy(Chain(req.query, "evidenceId")) THEN req.query.evidenceId
    ELSE IF Truthy(Chain(req.body, "evidenceId")) THEN req.body.evidenceId
    ELSE Null

\* req.params is read without ?., req.body and req.query with it
getEvidenceId(req) ==
    IF Truthy(req.params.evidenceId) THEN req.params.evidenceId
    ELSE IF Truthy(Chain(req.body, "evidenceId")) THEN req.body.evidenceId
    ELSE IF Truthy(Chain(req.query, "evidenceId")) THEN req.query.evidenceId
    ELSE Null

getCaseId(req) ==
    Or(req.params.caseId,
       Or(Chain(req.body, "caseId"),
          Or(Chain(req.query, "caseId"),
             Or(Chain(req.caseData, "case_id"), Null))))

\* reading a property of undefined throws a TypeError: req.params.evidenceId
\* in getEvidenceId, req.headers[...] in getUserInfo and getClientIp
DerivationThrows(req) == Absent(req.params) \/ Absent(req.headers)

\* the constants of the middleware function, computed when the request
\* arrives
Derived(req) ==
    [userId |-> getUserInfo(req).userId,
     userRole |-> getUserInfo(req).userRole,
     actionType |-> getActionType(req.method, req.path),
     evidenceId |-> getEvidenceId(req),
     caseId |-> getCaseId(req),
     ipAddress |-> getClientIp(req)]

NoDerived ==
    [userId |-> Undefined, userRole |-> Undefined, actionType |-> Undefined,
     evidenceId |-> Undefined, caseId |-> Undefined, ipAddress |-> Undefined]

\* an exclusion test that looks at req.path only
shouldExclude_path(opts, req) ==
    \E path \in opts.excludePaths : Includes(req.path, path)

\* excludePaths.some(path => req.path.includes(path) ||
\*                             req.originalUrl.includes(path))
shouldExclude(opts, req) ==
    \E path \in opts.excludePaths :
        Includes(req.path, path) \/ Includes(req.originalUrl, path)

\* the longest string that is logged whole
TruncateAt == 500

\* '[REDACTED]'
Redacted == FieldValue("string", 10, 0, "[REDACTED]")

\* value.substring(0, 500) + '...[TRUNCATED]'
Truncated(value) ==
    FieldValue("string", TruncateAt + 14, TruncateAt, "...[TRUNCATED]")

\* if (sanitized[field]) sanitized[field] = '[REDACTED]'
Redact(name, value) ==
    IF name \in sensitiveFields /\ TruthyField(value) THEN Redacted ELSE value

\* the strings longer than 500 characters are cut
Truncate(value) ==
    IF value.t = "string" /\ value.len > TruncateAt THEN Truncated(value)
    ELSE value

\* {} for a body that is no object; otherwise a copy of the body, the
\* sensitive fields redacted first and the long strings cut then.  The ids
\* are short strings.
sanitizeBody(body) ==
    IF Absent(body) THEN Payload(Undefined, Undefined, NoFields)
    ELSE [body EXCEPT
            !.fields = [name \in FieldNames |->
                          Truncate(Redact(name, body.fields[name]))]]

\* the details of the event logged on request; requestBody is there for
\* the methods other than GET
RequestDetails(req) ==
    [JsVal("object", IF req.method # "GET" THEN "{method,path,requestBody}"
                     ELSE "{method,path}")
       EXCEPT !.requestBody =
                 IF req.method # "GET" THEN <<sanitizeBody(req.body)>> ELSE <<>>]

\* the argument of the logAction call on request
RequestArg(req, d) ==
    [is |-> "object", actionType |-> d.actionType, evidenceId |-> d.evidenceId,
     userId |-> d.userId, userRole |-> d.userRole, status |-> "PENDING",
     details |-> RequestDetails(req), ipAddress |-> d.ipAddress,
     caseId |-> d.caseId]

\* the body of a response: what res.json is called with
Body(evidence, evidenceId, error) ==
    [is |-> "object", evidence |-> evidence, evidenceId |-> evidenceId,
     error |-> error]

\* body.evidence
Evidence(id, evidence_id) == [is |-> "object", id |-> id, evidence_id |-> evidence_id]

NoEvidence == [is |-> "undefined", id |-> Undefined, evidence_id |-> Undefined]

NoBody ==
    [is |-> "undefined", evidence |-> NoEvidence, evidenceId |-> Undefined,
     error |-> Undefined]

\* a success test without the lower limit
isSuccess_below400(statusCode) == statusCode < 400

\* res.statusCode >= 200 && res.statusCode < 400
isSuccess(statusCode) == statusCode >= 200 /\ statusCode < 400

\* an evidence id of the response that is null when the body has none
responseEvidenceId_erasing(body, evidenceId) ==
    LET evidence == IF Absent(body) THEN NoEvidence ELSE body.evidence
    IN  Or(Chain(evidence, "id"),
           Or(Chain(evidence, "evidence_id"),
              Or(Chain(body, "evidenceId"), Null)))

\* body?.evidence?.id || body?.evidence?.evidence_id || body?.evidenceId ||
\* evidenceId
responseEvidenceId(body, evidenceId) ==
    LET evidence == IF Absent(body) THEN NoEvidence ELSE body.evidence
    IN  Or(Chain(evidence, "id"),
           Or(Chain(evidence, "evidence_id"),
              Or(Chain(body, "evidenceId"), evidenceId)))

\* the details of the event logged on response; error is there for a
\* failure whose body has one
ResponseDetails(req, statusCode, body) ==
    JsVal("object",
          IF ~isSuccess(statusCode) /\ Chain(body, "error") # Undefined
          THEN "{method,path,statusCode,responseTime,error}"
          ELSE "{method,path,statusCode,responseTime}")

\* the argument of the logAction call on response
ResponseArg(req, d, statusCode, body) ==
    [is |-> "object", actionType |-> d.actionType,
     evidenceId |-> responseEvidenceId(body, d.evidenceId),
     userId |-> d.userId, userRole |-> d.userRole,
     status |-> IF isSuccess(statusCode) THEN "SUCCESS" ELSE "FAILURE",
     details |-> ResponseDetails(req, statusCode, body),
     ipAddress |-> d.ipAddress, caseId |-> d.caseId]

-----------------------------------------------------------------------------
(* The audit middleware: a request from its arrival to its response *)

\* what the handler produced, and what the client received: via is "json"
\* (res.json) or "send" (res.send, res.end, res.download, ...)
Response(via, statusCode, body) ==
    [via |-> via, statusCode |-> statusCode, body |-> body]

NoResponse == Response("none", 0, NoBody)

\* a request in the server: passed is the number of calls of next(),
\* rejected whether the promise of the middleware rejected, wrapped whether
\* res.json is the override, writes the logAction calls dispatched for it
Request(req, excluded, rejected, passed, wrapped, derived, writes) ==
    [req |-> req, excluded |-> excluded, rejected |-> rejected, passed |-> passed,
     wrapped |-> wrapped, derived |-> derived, writes |-> writes,
     produced |-> NoResponse, delivered |-> NoResponse]

\* a logAction call the middleware dispatched: when is "request" or
\* "response"
Write(cid, when, arg) == [cid |-> cid, when |-> when, arg |-> arg]

\* the logAction calls a request can dispatch under the options
WritesOf(opts) ==
    (IF opts.logOnRequest THEN 1 ELSE 0) + (IF opts.logOnResponse THEN 1 ELSE 0)

\* a response withheld until the write has settled
originalJson_awaited(statusCode, body) == NoResponse

\* originalJson(body): the response the client receives
originalJson(statusCode, body) == Response("json", statusCode, body)

\* the middleware function, async (req, res, next): an excluded request is
\* passed on at once; the fields are derived, and a TypeError there rejects
\* the promise before next() is called; the event is logged on request if
\* enabled, res.json is overridden if logging on response is enabled, and
\* the request is passed on.  A request is taken in when the logAction
\* calls it can dispatch, and those of the requests in the server, are within
\* MaxCalls.
auditMiddleware(req) ==
    /\ called + Len(reqs) + WritesOf(options) <= MaxCalls
    /\ IF shouldExclude(options, req)
       THEN /\ reqs' = Append(reqs, Request(req, TRUE, FALSE, 1, FALSE, NoDerived, <<>>))
            /\ UNCHANGED <<store, nextId, now, called, submitted, inflight, last>>
            /\ UNCHANGED <<lastDml, qres, sres, vres, options>>
       ELSE IF DerivationThrows(req)
       THEN /\ reqs' = Append(reqs, Request(req, FALSE, TRUE, 0, FALSE, NoDerived, <<>>))
            /\ UNCHANGED <<store, nextId, now, called, submitted, inflight, last>>
            /\ UNCHANGED <<lastDml, qres, sres, vres, options>>
       ELSE IF options.logOnRequest
       THEN /\ logActionCall(RequestArg(req, Derived(req)))
            /\ reqs' = Append(reqs,
                   Request(req, FALSE, FALSE, 1, options.logOnResponse, Derived(req),
                           <<Write(called + 1, "request",
                                   RequestArg(req, Derived(req)))>>))
       ELSE /\ reqs' = Append(reqs,
                   Request(req, FALSE, FALSE, 1, options.logOnResponse, Derived(req),
                           <<>>))
            /\ UNCHANGED <<store, nextId, now, called, submitted, inflight, last>>
            /\ UNCHANGED <<lastDml, qres, sres, vres, options>>

\* the handler of request r calls res.json(body) with res.statusCode set:
\* the override dispatches the write and calls the original res.json
\* without waiting; a res.json that was not overridden just responds
resJson(r, statusCode, body) ==
    /\ r \in 1..Len(reqs)
    /\ reqs[r].passed = 1
    /\ reqs[r].produced = NoResponse
    /\ IF reqs[r].wrapped
       THEN /\ logActionCall(ResponseArg(reqs[r].req, reqs[r].derived, statusCode, body))
            /\ reqs' = [reqs EXCEPT
                  ![r].writes =
                      Append(@, Write(called + 1, "response",
                                      ResponseArg(reqs[r].req, reqs[r].derived,
                                                  statusCode, body))),
                  ![r].produced = Response("json", statusCode, body),
                  ![r].delivered = originalJson(statusCode, body)]
       ELSE /\ reqs' = [reqs EXCEPT
                  ![r].produced = Response("json", statusCode, body),
                  ![r].delivered = originalJson(statusCode, body)]
            /\ UNCHANGED <<store, nextId, now, called, submitted, inflight, last>>
            /\ UNCHANGED <<lastDml, qres, sres, vres, options>>

\* the handler of request r responds without res.json (res.send, res.end,
\* res.download, ...): the override is not on the way
resSend(r, statusCode, body) ==
    /\ r \in 1..Len(reqs)
    /\ reqs[r].passed = 1
    /\ reqs[r].produced = NoResponse
    /\ reqs' = [reqs EXCEPT ![r].produced = Response("send", statusCode, body),
                            ![r].delivered = Response("send", statusCode, body)]
    /\ UNCHANGED <<store, nextId, now, called, submitted, inflight, last>>
    /\ UNCHANGED <<lastDml, qres, sres, vres, options>>

\* the end of a request that cancels the writes dispatched for it
requestDone_cancel(r) ==
    /\ r \in 1..Len(reqs)
    /\ reqs[r].delivered # NoResponse \/ reqs[r].rejected
    /\ reqs' = [i \in 1..(Len(reqs) - 1) |-> IF i < r THEN reqs[i] ELSE reqs[i + 1]]
    /\ inflight' =
         {w \in inflight :
            \A k \in 1..Len(reqs[r].writes) : reqs[r].writes[k].cid # w.cid}
    /\ UNCHANGED <<store, nextId, now, called, submitted, last>>
    /\ UNCHANGED <<lastDml, qres, sres, vres, options>>

\* request r is over: the client has its response, or has given up on a
\* request that was never passed on
requestDone(r) ==
    /\ r \in 1..Len(reqs)
    /\ reqs[r].delivered # NoResponse \/ reqs[r].rejected
    /\ reqs' = [i \in 1..(Len(reqs) - 1) |-> IF i < r THEN reqs[i] ELSE reqs[i + 1]]
    /\ UNCHANGED <<store, nextId, now, called, submitted, inflight, last>>
    /\ UNCHANGED <<lastDml, qres, sres, vres, options>>

\* the process terminates abruptly and is started again: the calls of
\* logAction that were suspended at their await are gone with the requests
\* in the server, the table is where the store has it
terminate ==
    /\ inflight # {} \/ reqs # <<>>
    /\ inflight' = {}
    /\ reqs' = <<>>
    /\ UNCHANGED <<store, nextId, now, called, submitted, last>>
    /\ UNCHANGED <<lastDml, qres, sres, vres, options>>

-----------------------------------------------------------------------------
(* The writer: logAction called with every kind of argument, racing the
   clock and its own earlier calls *)

Next ==
    \/ Tick
    \/ \E arg \in WriterArgs : logActionCall(arg) /\ UNCHANGED reqs
    \/ \E w \in inflight, outcome \in StoreOutcomes : logActionResume(w, outcome)

Spec == Init /\ [][Next]_vars

-----------------------------------------------------------------------------
(* The table under every statement: the writer's inserts, the reads of
   queryLogs, and UPDATE and DELETE statements of other clients *)

StoreArgs == {BaseArg, [BaseArg EXCEPT !.status = "PENDING"]}

NextStore ==
    \/ Tick
    \/ \E arg \in StoreArgs : logActionCall(arg) /\ UNCHANGED reqs
    \/ \E w \in inflight, outcome \in StoreOutcomes : logActionResume(w, outcome)
    \/ \E id \in 1..MaxCalls, status \in ACTION_STATUS : storeUpdate(id, status)
    \/ \E id \in 1..MaxCalls : storeDelete(id)
    \/ \E outcome \in StoreOutcomes : queryLogs(NoFilters, outcome) /\ UNCHANGED vres
    \/ queryDone

SpecStore == Init /\ [][NextStore]_vars

-----------------------------------------------------------------------------
(* The query engine: queryLogs against the tables the writer can have
   produced.  Timestamps are stamped at the call and rows are inserted when
   the insert settles, so every assignment of timestamps to insertion
   positions is a table the writer can leave behind. *)

QueryArgs ==
    {BaseArg,
     [BaseArg EXCEPT !.actionType = "VERIFY", !.evidenceId = "EVID-2",
                     !.status = "FAILURE"],
     [BaseArg EXCEPT !.userId = "0x2", !.evidenceId = "", !.caseId = Undefined]}

\* the times of the calls that wrote the table: two events can have the
\* same timestamp, and the later insert can have the earlier one
QueryStamps == {0, 1}

IsoOne == IsoStrings[2]

EqFilters ==
    {[NoFilters EXCEPT !.evidenceId = e, !.userId = u, !.actionType = a,
                       !.status = st, !.caseId = c] :
        e \in {Undefined, "EVID-1"}, u \in {Undefined, "0x1"},
        a \in {Undefined, "CREATE"}, st \in {Undefined, "SUCCESS"},
        c \in {Undefined, "CASE-1"}}

SomeFilters == {NoFilters, [NoFilters EXCEPT !.userId = "0x1"]}

DateFilters ==
    {[g EXCEPT !.startDate = x, !.endDate = y] :
        g \in {NoFilters}, x \in {Undefined, IsoStrings[1], IsoOne, "not-a-date"},
        y \in {Undefined, IsoOne}}

PageFilters ==
    {[g EXCEPT !.limit = l, !.offset = o] :
        g \in SomeFilters, l \in {<<>>, <<1>>, <<2>>}, o \in {<<>>, <<1>>, <<2>>}}

EmptyFilters ==
    {[NoFilters EXCEPT !.evidenceId = ""], [NoFilters EXCEPT !.status = ""],
     [NoFilters EXCEPT !.is = "undefined"], [NoFilters EXCEPT !.is = "null"]}

QueryFilters == EqFilters \cup DateFilters \cup PageFilters \cup EmptyFilters

InitQuery ==
    \E n \in 0..MaxRows :
      \E s \in [1..n -> QueryArgs \X QueryStamps] :
        /\ store = [i \in 1..n |-> NewRow(logEntry(Destructure(s[i][1]), s[i][2]), i)]
        /\ nextId = n + 1
        /\ now = MaxClock
        /\ called = n
        /\ submitted = n
        /\ inflight = {}
        /\ last = IF n = 0 THEN NoCall
                  ELSE Settled(n, s[n][1], "data", "inserted",
                               NewRow(logEntry(Destructure(s[n][1]), s[n][2]), n))
        /\ lastDml = NoDml
        /\ qres = NoQuery
        /\ sres = NoSummary
        /\ vres = NoView
        /\ options = DefaultOptions
        /\ reqs = <<>>

NextQuery ==
    \/ \E f \in QueryFilters, outcome \in StoreOutcomes :
          queryLogs(f, outcome) /\ UNCHANGED vres
    \/ queryDone

SpecQuery == InitQuery /\ [][NextQuery]_vars

-----------------------------------------------------------------------------
(* The read operations: queryLogs, getLogSummary, getEvidenceTrail and
   getUserActivity against the tables the writer can have produced over a
   month.  The clock is counted in hours. *)

\* the hour of the calls
ReadsNow == 1000

\* the events of the table: one in the last hour, and one at the first
\* instant of and one before each longer window
ReadRows ==
    {<<BaseArg, ReadsNow - 1>>,
     <<[BaseArg EXCEPT !.actionType = "VERIFY", !.evidenceId = "EVID-2",
                       !.status = "FAILURE"], ReadsNow - 24>>,
     <<[BaseArg EXCEPT !.userId = "0x2", !.evidenceId = "", !.caseId = Undefined],
       ReadsNow - 168>>,
     <<[BaseArg EXCEPT !.status = "PENDING"], ReadsNow - 720>>,
     <<[BaseArg EXCEPT !.actionType = "VERIFY"], ReadsNow - 721>>}

\* the time zones of the process: UTC, and one whose offset changed twelve
\* hours ago, forwards or backwards
TimeZones ==
    {UTC, [at |-> ReadsNow - 12, by |-> 1], [at |-> ReadsNow - 12, by |-> -1]}

TimeRanges == {"1h", "24h", "7d", "30d", Undefined, Null, "1d"}

TrailIds == {Undefined, "", "EVID-1", "EVID-404"}

ActivityUsers == {Undefined, "", "0x1", "0x404"}

ActivityLimits == {<<>>, <<1>>, <<2>>}

ReadFilters ==
    {NoFilters, [NoFilters EXCEPT !.startDate = "not-a-date"],
     [NoFilters EXCEPT !.is = "null"]}

InitReads ==
    \E n \in 0..MaxRows :
      \E s \in [1..n -> ReadRows] :
        /\ store = [i \in 1..n |-> NewRow(logEntry(Destructure(s[i][1]), s[i][2]), i)]
        /\ nextId = n + 1
        /\ now = ReadsNow
        /\ called = n
        /\ submitted = n
        /\ inflight = {}
        /\ last = IF n = 0 THEN NoCall
                  ELSE Settled(n, s[n][1], "data", "inserted",
                               NewRow(logEntry(Destructure(s[n][1]), s[n][2]), n))
        /\ lastDml = NoDml
        /\ qres = NoQuery
        /\ sres = NoSummary
        /\ vres = NoView
        /\ options = DefaultOptions
        /\ reqs = <<>>

\* no read is under way: reads change nothing, so reads that overlap see
\* what reads in a row see
Idle == ~qres.asked /\ ~sres.asked /\ ~vres.asked

NextReads ==
    \/ \E f \in ReadFilters, outcome \in StoreOutcomes :
          Idle /\ queryLogs(f, outcome) /\ UNCHANGED vres
    \/ ~vres.asked /\ queryDone
    \/ \E timeRange \in TimeRanges, zone \in TimeZones, outcome \in StoreOutcomes :
          Idle /\ getLogSummary(timeRange, zone, outcome)
    \/ summaryDone
    \/ \E evidenceId \in TrailIds, outcome \in StoreOutcomes :
          Idle /\ getEvidenceTrail(evidenceId, outcome)
    \/ \E userId \in ActivityUsers, limit \in ActivityLimits, outcome \in StoreOutcomes :
          Idle /\ getUserActivity(userId, limit, outcome)
    \/ viewDone

SpecReads == InitReads /\ [][NextReads]_vars

-----------------------------------------------------------------------------
(* The audit middleware in front of the handlers, with the writes it
   dispatches settling at any time *)

\* evidenceAuditMiddleware
evidenceAuditOptions ==
    [logOnRequest |-> FALSE, logOnResponse |-> TRUE,
     excludePaths |-> {<<"/health">>, <<"/api-docs">>, <<"/favicon">>}]

\* the middleware in front of the handlers
MiddlewareOptions == {evidenceAuditOptions}

\* POST /evidence of the wallet 0x1, as express hands it to the middleware
BaseReq ==
    [method |-> "POST", path |-> <<"/evidence">>, originalUrl |-> <<"/evidence">>,
     params |-> Ids(Undefined, Undefined), body |-> Payload("EVID-1", "CASE-1", NoFields),
     query |-> Ids(Undefined, Undefined),
     headers |-> Headers(<<>>, Undefined, "0x1"),
     connection |-> Peer("127.0.0.1"), socket |-> Peer("127.0.0.1"),
     user |-> NoUser, userRole |-> Undefined, caseData |-> NoCaseData]

\* the requests: BaseReq; a health check; a request to a router mounted at
\* /api-docs; a request without params; a request of an identity that has
\* neither wallet address nor id; a request with nothing but what the
\* middleware reads without ?.
Requests ==
    {BaseReq,
     [BaseReq EXCEPT !.method = "GET", !.path = <<"/health">>,
                     !.originalUrl = <<"/health">>],
     [BaseReq EXCEPT !.method = "GET", !.path = <<"/">>,
                     !.originalUrl = <<"/api-docs", "/">>],
     [BaseReq EXCEPT !.params = NoIds],
     [BaseReq EXCEPT !.user = User(Undefined, Undefined, "admin")],
     [BaseReq EXCEPT !.body = NoPayload, !.query = NoIds, !.connection = NoPeer,
                     !.socket = NoPeer, !.headers = Headers(<<>>, Undefined, Undefined)]}

\* what the handlers respond: 201 with the created evidence, 404 with an
\* error
Responses ==
    {<<201, Body(Evidence("EVID-9", Undefined), Undefined, Undefined)>>,
     <<404, Body(NoEvidence, Undefined, "not found")>>}

InitMiddleware ==
    /\ store = <<>>
    /\ nextId = 1
    /\ now = 0
    /\ called = 0
    /\ submitted = 0
    /\ inflight = {}
    /\ last = NoCall
    /\ lastDml = NoDml
    /\ qres = NoQuery
    /\ sres = NoSummary
    /\ vres = NoView
    /\ options \in MiddlewareOptions
    /\ reqs = <<>>

NextMiddleware ==
    \/ \E req \in Requests : auditMiddleware(req)
    \/ \E r \in 1..Len(reqs), response \in Responses :
          resJson(r, response[1], response[2])
    \/ \E r \in 1..Len(reqs), response \in Responses :
          resSend(r, response[1], response[2])
    \/ \E r \in 1..Len(reqs) : requestDone(r)
    \/ \E w \in inflight, outcome \in StoreOutcomes : logActionResume(w, outcome)

SpecMiddleware == InitMiddleware /\ [][NextMiddleware]_vars

-----------------------------------------------------------------------------
(* The audit middleware in a process that can terminate at any time *)

\* the requests: BaseReq; a health check; a request of an identity that has
\* neither wallet address nor id
TerminationRequests ==
    {BaseReq,
     [BaseReq EXCEPT !.method = "GET", !.path = <<"/health">>,
                     !.originalUrl = <<"/health">>],
     [BaseReq EXCEPT !.user = User(Undefined, Undefined, "admin")]}

NextTermination ==
    \/ \E req \in TerminationRequests : auditMiddleware(req)
    \/ \E r \in 1..Len(reqs), response \in Responses :
          resJson(r, response[1], response[2])
    \/ \E r \in 1..Len(reqs), response \in Responses :
          resSend(r, response[1], response[2])
    \/ \E r \in 1..Len(reqs) : requestDone(r)
    \/ \E w \in inflight, outcome \in StoreOutcomes : logActionResume(w, outcome)
    \/ terminate

SpecTermination == InitMiddleware /\ [][NextTermination]_vars

-----------------------------------------------------------------------------
(* One request at a time through the middleware, as express hands it over,
   under every setting of the toggles; the first request that is logged is
   the last one *)

\* createAuditMiddleware({logOnRequest, logOnResponse, excludePaths})
ToggleOptions ==
    {[evidenceAuditOptions EXCEPT !.logOnRequest = onRequest,
                                  !.logOnResponse = onResponse] :
        onRequest \in BOOLEAN, onResponse \in BOOLEAN}

\* req.method, as node and as other callers spell it
Methods == {"POST", "post", "Post", "GET", "get", "PUT", "PATCH", "DELETE", "OPTIONS"}

\* req.path, in pieces
Paths ==
    {<<"/evidence">>,
     <<"/evidence", "/verify">>,
     <<"/evidence", "/download">>,
     <<"/evidence", "/transfer">>,
     <<"/evidence", "/custody">>,
     <<"/download", "/verify">>,
     <<"/custody", "/transfer">>,
     <<"/custody", "/download", "/transfer">>}

\* where the ids of a request are: in the path parameters, the body and the
\* query string, each there or not, with the same pattern for both ids; an
\* empty path parameter; no body and no query string at all
IdShapes ==
    {[BaseReq EXCEPT !.params = Ids(p[1], p[2]), !.body = Payload(b[1], b[2], NoFields),
                     !.query = Ids(q[1], q[2])] :
        p \in {<<Undefined, Undefined>>, <<"EVID-P", "CASE-P">>},
        b \in {<<Undefined, Undefined>>, <<"EVID-B", "CASE-B">>},
        q \in {<<Undefined, Undefined>>, <<"EVID-Q", "CASE-Q">>}}
    \cup {[BaseReq EXCEPT !.params = Ids("", ""), !.query = Ids("EVID-Q", "CASE-Q")],
          [BaseReq EXCEPT !.body = NoPayload, !.query = NoIds],
          [BaseReq EXCEPT !.body = NoPayload, !.query = Ids("EVID-Q", Undefined)]}

\* the case a middleware before this one attached to the request
CaseShapes ==
    {[BaseReq EXCEPT !.body = Payload(Undefined, Undefined, NoFields), !.caseData = CaseData("CASE-D")],
     [BaseReq EXCEPT !.body = Payload("EVID-B", Undefined, NoFields),
                     !.query = Ids("EVID-Q", Undefined),
                     !.caseData = CaseData("CASE-D")],
     [BaseReq EXCEPT !.caseData = CaseData("CASE-D")],
     [BaseReq EXCEPT !.body = NoPayload, !.caseData = CaseData(Undefined)]}

\* who sends the request: an identity attached by the authentication
\* middleware, with wallet address and id, with one of them, with neither,
\* without role; no identity, with and without the wallet header, with and
\* without a role set on the request
UserShapes ==
    {[BaseReq EXCEPT !.user = User("0xA", "42", "admin")],
     [BaseReq EXCEPT !.user = User(Undefined, "42", "auditor")],
     [BaseReq EXCEPT !.user = User("0xA", Undefined, Undefined)],
     [BaseReq EXCEPT !.user = User(Undefined, Undefined, "admin")],
     [BaseReq EXCEPT !.user = User("0xA", "42", "investigator"),
                     !.userRole = "auditor"],
     [BaseReq EXCEPT !.headers = Headers(<<>>, Undefined, Undefined)],
     [BaseReq EXCEPT !.headers = Headers(<<>>, Undefined, "")],
     [BaseReq EXCEPT !.userRole = "investigator"],
     [BaseReq EXCEPT !.headers = Headers(<<>>, Undefined, Undefined),
                     !.userRole = "superuser"]}

\* what the body of a request carries besides the ids
FieldShapes ==
    {[NoFields EXCEPT !["password"] = Text(8), !["title"] = Text(12)],
     [NoFields EXCEPT !["password"] = Text(0), !["title"] = Text(12)],
     [NoFields EXCEPT !["token"] = Zero],
     [NoFields EXCEPT !["notes"] = Text(TruncateAt + 1), !["title"] = Text(TruncateAt)],
     [NoFields EXCEPT !["fileData"] = Text(TruncateAt + 100), !["key"] = Text(8)],
     [NoFields EXCEPT !["notes"] = Nested, !["secret"] = Nested]}

\* requests with a body: POST and PUT with every body, a GET with one, a
\* POST without
BodyShapes ==
    {[BaseReq EXCEPT !.method = method,
                     !.body = Payload("EVID-1", "CASE-1", fields)] :
        method \in {"POST", "PUT"}, fields \in FieldShapes}
    \cup {[BaseReq EXCEPT !.method = "GET",
                          !.body = Payload("EVID-1", "CASE-1",
                                           [NoFields EXCEPT !["password"] = Text(8)])],
          [BaseReq EXCEPT !.body = NoPayload]}

\* the requests: every method on every path; a health check; the ids in
\* every place; every kind of sender; every kind of body
RequestShapes ==
    {[BaseReq EXCEPT !.method = method, !.path = path, !.originalUrl = path] :
        method \in Methods, path \in Paths}
    \cup {[BaseReq EXCEPT !.method = "GET", !.path = <<"/health">>,
                          !.originalUrl = <<"/health">>]}
    \cup IdShapes
    \cup CaseShapes
    \cup UserShapes
    \cup BodyShapes

\* res.statusCode when the handler responds
StatusCodes == {100, 199, 200, 201, 399, 400, 404, 500}

\* what the handler responds with: a body with every id, with some, with
\* none, with an error, with empty ids, and no body at all
Bodies ==
    {Body(Evidence("EVID-9", "EVID-8"), "EVID-7", Undefined),
     Body(Evidence(Undefined, "EVID-8"), "EVID-7", Undefined),
     Body(Evidence("", ""), "EVID-7", Undefined),
     Body(NoEvidence, "EVID-7", Undefined),
     Body(Evidence(Undefined, Undefined), Undefined, Undefined),
     Body(NoEvidence, Undefined, "not found"),
     NoBody}

\* what the handlers respond: every status code, every body
HandlerResponses ==
    {<<statusCode, Body(NoEvidence, Undefined, "not found")>> :
        statusCode \in StatusCodes}
    \cup {<<201, body>> : body \in Bodies}

InitRequest ==
    /\ store = <<>>
    /\ nextId = 1
    /\ now = 0
    /\ called = 0
    /\ submitted = 0
    /\ inflight = {}
    /\ last = NoCall
    /\ lastDml = NoDml
    /\ qres = NoQuery
    /\ sres = NoSummary
    /\ vres = NoView
    /\ options \in ToggleOptions
    /\ reqs = <<>>

NextRequest ==
    \/ \E req \in RequestShapes : called = 0 /\ reqs = <<>> /\ auditMiddleware(req)
    \/ \E r \in 1..Len(reqs), response \in HandlerResponses :
          resJson(r, response[1], response[2])
    \/ \E r \in 1..Len(reqs), response \in HandlerResponses :
          resSend(r, response[1], response[2])
    \/ \E r \in 1..Len(reqs) : requestDone(r)
    \/ \E w \in inflight, outcome \in StoreOutcomes : logActionResume(w, outcome)

SpecRequest == InitRequest /\ [][NextRequest]_vars

-----------------------------------------------------------------------------
(* Properties of the writer and of the table *)

\* what the claims call a candidate event that passes, or fails, validation
PassesValidator(arg) ==
    /\ arg.is = "object"
    /\ arg.actionType \in ACTION_TYPES
    /\ arg.userId \notin {Undefined, Null, ""}
    /\ arg.status \in ACTION_STATUS

FailsValidation(arg) == arg.is = "object" /\ ~PassesValidator(arg)

\* C1: every persisted audit event has an action_type and a status of the
\* closed enumerations and a present, non-empty user_id.
C1_PersistedEventsValid ==
    \A i \in 1..Len(store) :
        /\ store[i].action_type \in ACTION_TYPES
        /\ store[i].status \in ACTION_STATUS
        /\ store[i].user_id \notin {Undefined, Null, ""}

\* an event is persisted after a call that validation rejected
C1_Witness ==
    /\ Len(store) >= 1
    /\ last.kind = "null" /\ last.store = "none" /\ FailsValidation(last.arg)

\* C2: a logAction call whose candidate event fails validation returns null,
\* submits no insert and leaves the persisted events unchanged.
C2_InvalidRejected ==
    [][/\ \A w \in inflight' : ~FailsValidation(w.arg)
       /\ (last' # last /\ FailsValidation(last'.arg)) =>
            /\ last'.kind = "null"
            /\ store' = store
            /\ submitted' = submitted
            /\ inflight' = inflight]_vars

\* an invalid candidate was rejected while an event was persisted and a
\* write was in flight
C2_Witness ==
    /\ last.kind = "null" /\ FailsValidation(last.arg)
    /\ Len(store) + Cardinality(inflight) >= 1

\* C3: the log is append-only: every step keeps every persisted event as it
\* is and where it is, the table only grows, and an UPDATE or a DELETE
\* submitted to the store affects no row.
C3_AppendOnly ==
    [][/\ Len(store') >= Len(store)
       /\ \A i \in 1..Len(store) : store'[i] = store[i]
       /\ lastDml'.affected = 0]_vars

\* an UPDATE that names a persisted event was submitted
C3_Witness == lastDml.op = "update" /\ lastDml.matched = 1 /\ Len(store) >= 1

\* C4 (as claimed): the promise logAction returns never rejects, whatever the
\* argument and whatever the store does.
C4_NeverRejects == last.kind # "rejected"

\* C5: when the insert of a validated event fails, logAction returns null,
\* nothing is persisted, and the insert is not submitted again: a call
\* submits at most one insert.
C5_FailedInsertNotRetried ==
    [][/\ (last' # last /\ last'.store \in {"constraint", "error", "throw"}) =>
            /\ last'.kind = "null"
            /\ store' = store
            /\ submitted' = submitted
       /\ submitted' <= called'
       /\ \A v, w \in inflight' : v.cid = w.cid => v = w]_vars

\* the insert of a validated event failed in the store
C5_Witness ==
    /\ last.kind = "null" /\ last.store \in {"error", "throw"}
    /\ PassesValidator(last.arg)

\* the fields of the candidate as the persisted record carries them: absent
\* ids are null, absent details are {}, details that are not of type
\* "object" are wrapped
CarriedId(x) == IF x = Undefined THEN Null ELSE x

CarriedDetails(d) ==
    IF d.t = "undefined" THEN EmptyMapD
    ELSE IF d.t \in {"object", "array", "null"} THEN d
    ELSE MessageOf(d)

Carries(row, arg) ==
    /\ row.action_type = arg.actionType
    /\ row.evidence_id = CarriedId(arg.evidenceId)
    /\ row.case_id = CarriedId(arg.caseId)
    /\ row.user_id = arg.userId
    /\ row.status = arg.status
    /\ row.details = CarriedDetails(arg.details)
    /\ row.ip_address = CarriedId(arg.ipAddress)

\* the call that settles in this step persisted exactly one new record,
\* stamped with the time of the call, and returned it
AcceptedInThisStep ==
    /\ last'.kind = "data"
    /\ Len(store') = Len(store) + 1
    /\ \A i \in 1..Len(store) : store'[i] = store[i] /\ store[i].id # last'.data.id
    /\ store'[Len(store')] = last'.data
    /\ last'.data.id >= 1
    /\ Carries(last'.data, last'.arg)
    /\ \E w \in inflight : w.cid = last'.cid /\ w.entry.timestamp = last'.data.timestamp

StampedNow == \A w \in inflight' \ inflight : w.entry.timestamp = now

StoreAvailable(c) == c.store \in {"inserted", "constraint"}

\* the roles the store admits, and the absent ones that become "unknown"
RoleAdmitted(userRole) == userRole \in user_role_check \cup {Undefined, Null, ""}

\* C6 (as claimed): every candidate that passes the Validator is, when the
\* store is available, stamped with the current time, persisted as exactly
\* one new record that carries its fields, and returned with a generated id.
C6_ValidAccepted ==
    [][/\ StampedNow
       /\ (last' # last /\ PassesValidator(last'.arg) /\ StoreAvailable(last'))
            => AcceptedInThisStep]_vars

\* C6 (amended): the same, for the candidates whose userRole is absent,
\* empty or one of the ten values the user_role column admits.
C6_ValidAdmittedAccepted ==
    [][/\ StampedNow
       /\ (last' # last /\ PassesValidator(last'.arg) /\ StoreAvailable(last')
           /\ RoleAdmitted(last'.arg.userRole))
            => AcceptedInThisStep]_vars

\* a valid candidate was persisted after the clock had advanced
C6_Witness ==
    /\ last.kind = "data" /\ PassesValidator(last.arg)
    /\ last.data.timestamp >= 1
    /\ \E i \in 1..Len(store) : store[i] = last.data

\* C7 (as claimed): the entry submitted to the store has user_role "unknown"
\* when userRole is absent or empty, details {} when details is absent,
\* {message: v} for every supplied details v that is not a key-value map,
\* and the map itself otherwise.
C7_EntryDefaults ==
    \A w \in inflight :
        /\ w.arg.userRole \in {Undefined, ""} => w.entry.user_role = "unknown"
        /\ w.arg.details = UndefinedD => w.entry.details = EmptyMapD
        /\ (w.arg.details # UndefinedD /\ ~IsMap(w.arg.details))
              => w.entry.details = MessageOf(w.arg.details)
        /\ IsMap(w.arg.details) => w.entry.details = w.arg.details

-----------------------------------------------------------------------------
(* Properties of the query engine *)

\* the table the last query ran against
Queried == SubSeq(store, 1, qres.n)

Answered == qres.asked /\ qres.error = Null

\* a filter is supplied when it has a value, and it is non-empty when the
\* value is not the empty string
Supplied(x) == x \notin {Undefined, Null}

NonEmpty(x) == x \notin {Undefined, Null, ""}

\* the row satisfies every filter of f that Given(_) holds of
Satisfies(row, f, Given(_)) ==
    /\ Given(f.evidenceId) => row.evidence_id = f.evidenceId
    /\ Given(f.userId) => row.user_id = f.userId
    /\ Given(f.actionType) => row.action_type = f.actionType
    /\ Given(f.status) => row.status = f.status
    /\ Given(f.caseId) => row.case_id = f.caseId
    /\ Given(f.startDate) => DateValue(f.startDate) <= row.timestamp
    /\ Given(f.endDate) => row.timestamp <= DateValue(f.endDate)

Smaller(a, b) == IF a < b THEN a ELSE b

\* the number of rows a page holds: limit of them, or what is left of total
\* after offset
PageSize(total, limit, offset) ==
    IF total <= offset THEN 0 ELSE Smaller(limit, total - offset)

ClaimedLimit(f) == IF f.limit = <<>> THEN 100 ELSE f.limit[1]

ClaimedOffset(f) == IF f.offset = <<>> THEN 0 ELSE f.offset[1]

\* the returned events are persisted events that satisfy every given filter,
\* none twice, and as many of the satisfying events as the page holds
FiltersComposed(Given(_)) ==
    Answered =>
      LET f == FiltersOf(qres.f)
          S == {i \in 1..qres.n : Satisfies(store[i], f, Given)}
      IN  /\ \A j \in 1..Len(qres.logs) :
                \E i \in S : store[i] = qres.logs[j]
          /\ \A j, k \in 1..Len(qres.logs) :
                j # k => qres.logs[j].id # qres.logs[k].id
          /\ Len(qres.logs) =
                PageSize(Cardinality(S), ClaimedLimit(f), ClaimedOffset(f))

\* C8 (as claimed): queryLogs composes the supplied filters with AND: every
\* returned event equals the supplied value of each equality filter and has
\* startDate <= timestamp <= endDate, and no event that satisfies all
\* supplied filters is left out except by pagination.
C8_FiltersAnd == FiltersComposed(Supplied)

\* C8 (amended): the same for the filters supplied with a non-empty value; a
\* filter supplied as the empty string is ignored.
C8_NonEmptyFiltersAnd == FiltersComposed(NonEmpty)

\* two filters are given, some event is returned and some event is left out
C8_Witness ==
    /\ Answered
    /\ NonEmpty(qres.f.userId) /\ NonEmpty(qres.f.status)
    /\ Len(qres.logs) >= 1
    /\ Len(qres.logs) < qres.n
    /\ qres.f.limit = <<>> /\ qres.f.offset = <<>>

\* C9: the events queryLogs returns are in descending order of timestamp,
\* whatever the order they were inserted in.
C9_TimestampDescending ==
    qres.asked =>
      \A j \in 1..Len(qres.logs) - 1 :
          qres.logs[j].timestamp >= qres.logs[j + 1].timestamp

\* a later inserted event with a later timestamp is returned first, and an
\* earlier inserted event with a later timestamp is returned first
C9_Witness ==
    /\ Answered
    /\ Len(qres.logs) = 3
    /\ qres.logs[1].timestamp > qres.logs[3].timestamp
    /\ \/ qres.logs[1].id > qres.logs[3].id
       \/ qres.logs[1].id < qres.logs[2].id

\* C10: queryLogs returns the events at positions offset .. offset+limit-1
\* of the ordered list of matching events, at most limit of them, with
\* limit 100 and offset 0 when absent, and a count that is not negative.
C10_Pagination ==
    Answered =>
      LET f == FiltersOf(qres.f)
          M == {i \in 1..qres.n : RowMatches(store[i], f)}
          Newer(r) == Cardinality({i \in M : store[i].timestamp > r.timestamp})
          NotOlder(r) == Cardinality({i \in M : store[i].timestamp >= r.timestamp})
      IN  /\ Len(qres.logs) =
                PageSize(Cardinality(M), ClaimedLimit(f), ClaimedOffset(f))
          /\ Len(qres.logs) <= ClaimedLimit(f)
          /\ qres.count >= 0
          /\ \A j \in 1..Len(qres.logs) :
                /\ \E i \in M : store[i] = qres.logs[j]
                /\ Newer(qres.logs[j]) <= ClaimedOffset(f) + j - 1
                /\ ClaimedOffset(f) + j - 1 < NotOlder(qres.logs[j])
          /\ \A j, k \in 1..Len(qres.logs) :
                j # k => qres.logs[j].id # qres.logs[k].id

\* a full page from the middle of the list: events before it and after it
C10_Witness ==
    /\ Answered
    /\ qres.f.limit = <<1>> /\ qres.f.offset = <<1>>
    /\ Len(qres.logs) = 1
    /\ qres.count = 3

\* the persisted events that match the filters of the query, whatever its
\* limit and offset
Matching(f) == {i \in 1..qres.n : Satisfies(store[i], f, NonEmpty)}

-----------------------------------------------------------------------------
(* Properties of the read operations *)

StoreFailed(r) == r.store \in {"error", "throw"}

\* a filter value that is not a date, or filters that are not an object
Malformed(f) == f.is = "null" \/ f.startDate = "not-a-date"

\* C12: the read operations resolve to an error result when the store fails
\* or a filter is malformed: queryLogs to no logs, count 0 and a non-empty
\* error; getLogSummary to an object with an error and no counts;
\* getEvidenceTrail and getUserActivity to an empty list with the error of
\* their query.
C12_ReadsNeverRaise ==
    /\ (qres.asked /\ (StoreFailed(qres) \/ Malformed(qres.f))) =>
          /\ qres.logs = <<>>
          /\ qres.count = 0
          /\ NonEmpty(qres.error)
    /\ (sres.asked /\ StoreFailed(sres)) =>
          /\ sres.value.keys = {"error"}
          /\ NonEmpty(sres.value.error)
    /\ (vres.asked /\ vres.queries = 1 /\ StoreFailed(qres)) =>
          /\ vres.list = <<>>
          /\ NonEmpty(vres.error)
          /\ vres.error = qres.error

\* the store threw under the query of a derived view of a table with events
C12_Witness ==
    /\ vres.asked /\ vres.queries = 1 /\ qres.store = "throw"
    /\ Len(store) >= 1

RECURSIVE SumOver(_, _)
SumOver(f, S) ==
    IF S = {} THEN 0
    ELSE LET k == CHOOSE x \in S : TRUE IN f[k] + SumOver(f, S \ {k})

\* the persisted events of the window of the summary
InWindow(start) == {i \in 1..sres.n : store[i].timestamp >= start}

\* C13: getLogSummary returns byActionType with exactly the eight action
\* types and byStatus with exactly the three statuses as keys; each value is
\* the number of persisted events with timestamp >= start of that action
\* type or status; totalActions is the number of events with timestamp >=
\* start, and the sum of the values of each map.
C13_SummaryTallies ==
    (sres.asked /\ sres.store = "up") =>
      LET v == sres.value
          W == InWindow(sres.start)
      IN  /\ DOMAIN v.byActionType = ACTION_TYPES
          /\ DOMAIN v.byStatus = ACTION_STATUS
          /\ \A a \in ACTION_TYPES :
                v.byActionType[a] = Cardinality({i \in W : store[i].action_type = a})
          /\ \A st \in ACTION_STATUS :
                v.byStatus[st] = Cardinality({i \in W : store[i].status = st})
          /\ v.totalActions = Cardinality(W)
          /\ v.totalActions = SumOver(v.byActionType, ACTION_TYPES)
          /\ v.totalActions = SumOver(v.byStatus, ACTION_STATUS)

\* a window with events of two action types and two statuses in it, one of
\* them at its first instant, and an event before it
C13_Witness ==
    /\ sres.asked /\ sres.store = "up"
    /\ sres.value.totalActions = 2
    /\ sres.n = 3
    /\ sres.value.byActionType["CREATE"] = 1
    /\ sres.value.byActionType["VERIFY"] = 1
    /\ sres.value.byActionType["DELETE"] = 0
    /\ sres.value.byStatus["FAILURE"] = 1
    /\ \E i \in 1..sres.n : store[i].timestamp = sres.start

WindowTokens == {"1h", "24h", "7d", "30d"}

\* the length in hours of the window a token selects
WindowHours(token) ==
    CASE token = "1h" -> 1
      [] token = "24h" -> 24
      [] token = "7d" -> 7 * 24
      [] token = "30d" -> 30 * 24
      [] OTHER -> 24

\* C14 (as claimed): for the tokens "1h", "24h", "7d", "30d" the window
\* starts at now minus 1 hour, 24 hours, 7 days, 30 days and the result
\* echoes the token; for every other token the call is not an error and
\* counts the events of the last 24 hours.
C14_WindowFromToken ==
    (sres.asked /\ sres.store = "up") =>
      LET hours == WindowHours(sres.timeRange)
      IN  /\ "error" \notin sres.value.keys
          /\ sres.start = now - hours
          /\ sres.timeRange \in WindowTokens =>
                sres.value.timeRange = sres.timeRange
          /\ sres.value.totalActions = Cardinality(InWindow(now - hours))

\* the events of an evidence item or of a user
OfEvidence(id) == {i \in 1..qres.n : store[i].evidence_id = id}

OfUser(id) == {i \in 1..qres.n : store[i].user_id = id}

Missing(x) == x \in {Undefined, Null, ""}

\* C15: getEvidenceTrail without an evidence id returns an empty trail and
\* "Evidence ID is required" and queries nothing; with an id it returns the
\* events and the error of queryLogs({evidenceId: id, limit: 500}): the
\* events of that evidence item, none when there is none, and error null,
\* when the store is available.
C15_EvidenceTrail ==
    (vres.asked /\ vres.op = "getEvidenceTrail") =>
      IF Missing(vres.id)
      THEN /\ vres.list = <<>>
           /\ vres.error = "Evidence ID is required"
           /\ vres.queries = 0
           /\ ~qres.asked
      ELSE /\ vres.queries = 1
           /\ qres.asked
           /\ qres.f = [NoFilters EXCEPT !.evidenceId = vres.id, !.limit = <<500>>]
           /\ vres.list = qres.logs
           /\ vres.error = qres.error
           /\ qres.store = "up" =>
                /\ vres.error = Null
                /\ \A j \in 1..Len(vres.list) :
                      \E i \in OfEvidence(vres.id) : store[i] = vres.list[j]
                /\ Len(vres.list) = Smaller(500, Cardinality(OfEvidence(vres.id)))

\* the trail of an evidence item in a table with events of other items
C15_Witness ==
    /\ vres.asked /\ vres.op = "getEvidenceTrail"
    /\ Len(vres.list) = 2
    /\ qres.n = 3
    /\ vres.error = Null

\* the limit of getUserActivity: 50 when the argument is missing
ClaimedActivityLimit(limit) == IF limit = <<>> THEN 50 ELSE limit[1]

\* C16: getUserActivity without a user id returns an empty activity and
\* "User ID is required" and queries nothing; with an id it returns the
\* events and the error of queryLogs({userId, limit}), limit being 50 by
\* default: every returned event has that user_id and there are at most
\* limit of them.
C16_UserActivity ==
    (vres.asked /\ vres.op = "getUserActivity") =>
      IF Missing(vres.id)
      THEN /\ vres.list = <<>>
           /\ vres.error = "User ID is required"
           /\ vres.queries = 0
           /\ ~qres.asked
      ELSE /\ vres.queries = 1
           /\ qres.asked
           /\ qres.f = [NoFilters EXCEPT
                          !.userId = vres.id,
                          !.limit = <<ClaimedActivityLimit(vres.limit)>>]
           /\ vres.list = qres.logs
           /\ vres.error = qres.error
           /\ \A j \in 1..Len(vres.list) : vres.list[j].user_id = vres.id
           /\ Len(vres.list) <= ClaimedActivityLimit(vres.limit)
           /\ qres.store = "up" =>
                Len(vres.list) = Smaller(ClaimedActivityLimit(vres.limit),
                                         Cardinality(OfUser(vres.id)))

\* a user with more events than the limit
C16_Witness ==
    /\ vres.asked /\ vres.op = "getUserActivity"
    /\ vres.limit = <<1>>
    /\ Len(vres.list) = 1
    /\ Cardinality(OfUser(vres.id)) >= 2
    /\ Cardinality(OfUser(vres.id)) < qres.n

-----------------------------------------------------------------------------
(* Properties of the audit middleware *)

\* the path or the original URL of the request contains an entry of the
\* exclusion list
Excluded(req) ==
    \E entry \in options.excludePaths :
        Includes(req.path, entry) \/ Includes(req.originalUrl, entry)

DefaultToggles == ~options.logOnRequest /\ options.logOnResponse

\* the outcome of a response: its status code is in [200, 400)
OutcomeOf(response) ==
    IF 200 <= response.statusCode /\ response.statusCode < 400
    THEN "SUCCESS" ELSE "FAILURE"

\* the event is built from the fields derived at arrival and the outcome
BuiltFrom(arg, q) ==
    /\ arg.userId = q.derived.userId
    /\ arg.userRole = q.derived.userRole
    /\ arg.actionType = q.derived.actionType
    /\ arg.caseId = q.derived.caseId
    /\ arg.ipAddress = q.derived.ipAddress
    /\ arg.evidenceId \in
          {q.derived.evidenceId, q.produced.body.evidenceId,
           q.produced.body.evidence.id, q.produced.body.evidence.evidence_id}
    /\ arg.status = OutcomeOf(q.produced)

\* C17 (as claimed): with logOnRequest off and logOnResponse on, no write
\* is dispatched for a non-excluded request before its response is
\* produced, and exactly one from the moment it is produced, built from the
\* fields derived at arrival and the outcome of the response.
C17_DefaultLogsOnce ==
    DefaultToggles =>
      \A r \in 1..Len(reqs) :
          ~Excluded(reqs[r].req) =>
             IF reqs[r].produced = NoResponse
             THEN reqs[r].writes = <<>>
             ELSE /\ Len(reqs[r].writes) = 1
                  /\ reqs[r].writes[1].when = "response"
                  /\ BuiltFrom(reqs[r].writes[1].arg, reqs[r])

\* the write of a request has been dispatched and has not settled
WriteInFlight(q) ==
    \E k \in 1..Len(q.writes) : \E w \in inflight : w.cid = q.writes[k].cid

\* C18: the middleware does not wait for the write: in the step that
\* dispatches the write of a response the response is handed on, as the
\* handler produced it, so a response is delivered whatever becomes of the
\* write; the step in which a write settles, with the event or with a
\* failure, touches no request, and no write of the middleware rejects.
C18_ResponseNotBlocked ==
    [][/\ \A r \in 1..Len(reqs') :
            /\ reqs'[r].produced # NoResponse =>
                  reqs'[r].delivered = reqs'[r].produced
            /\ reqs'[r].writes # <<>> /\ ~options.logOnRequest =>
                  reqs'[r].delivered # NoResponse
       /\ Cardinality(inflight') < Cardinality(inflight) => reqs' = reqs
       /\ last'.kind # "rejected"]_vars

\* a response has been delivered while its write is in flight, after the
\* write of another request failed
C18_Witness ==
    /\ \E r \in 1..Len(reqs) :
          reqs[r].delivered # NoResponse /\ WriteInFlight(reqs[r])
    /\ last.kind = "null"

OfExcluded ==
    \/ /\ Len(reqs') = Len(reqs) + 1
       /\ Excluded(reqs'[Len(reqs')].req)
    \/ /\ Len(reqs') = Len(reqs)
       /\ \E r \in 1..Len(reqs) : reqs'[r] # reqs[r] /\ Excluded(reqs[r].req)

\* C20: a request whose path or original URL contains an entry of the
\* exclusion list is passed on with res.json as it was, no write is
\* dispatched for it at arrival or at its response, and its steps leave the
\* persisted events and the writes as they are.
C20_ExcludedBypass ==
    [][/\ \A r \in 1..Len(reqs') :
            Excluded(reqs'[r].req) =>
               /\ reqs'[r].writes = <<>>
               /\ ~reqs'[r].wrapped
               /\ reqs'[r].passed = 1
       /\ OfExcluded => UNCHANGED <<store, inflight, called, submitted>>]_vars

\* a request that only its original URL excludes has been answered through
\* res.json while an event of another request is persisted
C20_Witness ==
    /\ \E r \in 1..Len(reqs) :
          /\ Excluded(reqs[r].req)
          /\ \A entry \in options.excludePaths : ~Includes(reqs[r].req.path, entry)
          /\ reqs[r].delivered.via = "json"
    /\ Len(store) >= 1

-----------------------------------------------------------------------------
(* Properties of the middleware's configuration and derivations *)

\* when the writes of a request were dispatched, in order
WhenOf(q) == [k \in 1..Len(q.writes) |-> q.writes[k].when]

\* the writes the toggles select: before the handler runs, and from the
\* moment its response is produced
SelectedAtArrival == IF options.logOnRequest THEN <<"request">> ELSE <<>>

SelectedAtResponse == IF options.logOnResponse THEN <<"response">> ELSE <<>>

\* C21 (as claimed): for a non-excluded request the toggles select the
\* writes: with logOnRequest on, one write with status PENDING before the
\* handler runs; with logOnResponse on, one write with status SUCCESS or
\* FAILURE when the response is produced; with both on, the PENDING write
\* first; with both off, none.
C21_ToggleSelectsWrites ==
    \A r \in 1..Len(reqs) :
        ~Excluded(reqs[r].req) =>
           /\ WhenOf(reqs[r]) =
                 IF reqs[r].produced = NoResponse THEN SelectedAtArrival
                 ELSE SelectedAtArrival \o SelectedAtResponse
           /\ \A k \in 1..Len(reqs[r].writes) :
                 IF reqs[r].writes[k].when = "request"
                 THEN reqs[r].writes[k].arg.status = "PENDING"
                 ELSE reqs[r].writes[k].arg.status \in {"SUCCESS", "FAILURE"}

\* the action type of a method, whatever the case of its letters
OfMethod(method) ==
    CASE method \in {"POST", "Post", "post"} -> "CREATE"
      [] method \in {"GET", "Get", "get"} -> "ACCESS"
      [] method \in {"PUT", "Put", "put", "PATCH", "Patch", "patch"} -> "MODIFY"
      [] method \in {"DELETE", "Delete", "delete"} -> "DELETE"
      [] OTHER -> "ACCESS"

\* the action type of a path that names an action, in the order of priority
OfPath(path) ==
    CASE Includes(path, <<"/verify">>) -> "VERIFY"
      [] ~Includes(path, <<"/verify">>) /\ Includes(path, <<"/download">>) -> "DOWNLOAD"
      [] ~Includes(path, <<"/verify">>) /\ ~Includes(path, <<"/download">>)
           /\ Includes(path, <<"/transfer">>) -> "TRANSFER"
      [] OTHER -> "CHAIN_OF_CUSTODY"

NamesAction(path) ==
    \E piece \in {"/verify", "/download", "/transfer", "/custody"} :
        Includes(path, <<piece>>)

\* C22: the action type derived for a request is VERIFY, DOWNLOAD, TRANSFER
\* or CHAIN_OF_CUSTODY when the path contains "/verify", "/download",
\* "/transfer" or "/custody", the first of them in that order and whatever
\* the method; otherwise it is the action type of the method, read without
\* regard to case, ACCESS for the methods that have none; it is always one
\* of the action types.
C22_ActionTypeOfRequest ==
    \A r \in 1..Len(reqs) :
        ~reqs[r].excluded =>
           /\ reqs[r].derived.actionType =
                 IF NamesAction(reqs[r].req.path) THEN OfPath(reqs[r].req.path)
                 ELSE OfMethod(reqs[r].req.method)
           /\ reqs[r].derived.actionType \in ACTION_TYPES

\* a DELETE on a path that contains "/download" before "/verify" is a VERIFY
C22_Witness ==
    \E r \in 1..Len(reqs) :
        /\ reqs[r].req.method = "DELETE"
        /\ reqs[r].req.path = <<"/download", "/verify">>
        /\ reqs[r].derived.actionType = "VERIFY"

\* the writes dispatched at the response of request q
ResponseWrites(q) ==
    {q.writes[k] : k \in {i \in 1..Len(q.writes) : q.writes[i].when = "response"}}

\* C23: the status of the event dispatched at response time is SUCCESS
\* exactly when the status code of the response is at least 200 and below
\* 400, FAILURE for every other status code, and never PENDING.
C23_StatusOfResponse ==
    \A r \in 1..Len(reqs) : \A w \in ResponseWrites(reqs[r]) :
        /\ w.arg.status = "SUCCESS" <=>
              (reqs[r].produced.statusCode >= 200 /\ reqs[r].produced.statusCode < 400)
        /\ w.arg.status = "FAILURE" <=>
              (reqs[r].produced.statusCode < 200 \/ reqs[r].produced.statusCode >= 400)
        /\ w.arg.status # "PENDING"

\* a response with status code 100 has been logged as a FAILURE
C23_Witness ==
    \E r \in 1..Len(reqs) : \E w \in ResponseWrites(reqs[r]) :
        reqs[r].produced.statusCode = 100 /\ w.arg.status = "FAILURE"

\* the first of the three values that is there, null when none is
FirstOf(param, field, query) ==
    IF Truthy(param) THEN param
    ELSE IF Truthy(field) THEN field
    ELSE IF Truthy(query) THEN query
    ELSE Null

\* C24 (as claimed): the evidence id and the case id derived for a request
\* are each the path parameter when present, otherwise the body field when
\* present, otherwise the query parameter when present, and null when the
\* id is in none of the three.
C24_IdPrecedence ==
    \A r \in 1..Len(reqs) :
        ~reqs[r].excluded =>
           /\ reqs[r].derived.evidenceId =
                 FirstOf(reqs[r].req.params.evidenceId, reqs[r].req.body.evidenceId,
                         reqs[r].req.query.evidenceId)
           /\ reqs[r].derived.caseId =
                 FirstOf(reqs[r].req.params.caseId, reqs[r].req.body.caseId,
                         reqs[r].req.query.caseId)

\* C24 (amended): the evidence id is as claimed; the case id, when it is in
\* none of the three places, is the id of the case attached to the request
\* when there is one, and null otherwise.
C24_IdPrecedenceThenCase ==
    \A r \in 1..Len(reqs) :
        ~reqs[r].excluded =>
           /\ reqs[r].derived.evidenceId =
                 FirstOf(reqs[r].req.params.evidenceId, reqs[r].req.body.evidenceId,
                         reqs[r].req.query.evidenceId)
           /\ reqs[r].derived.caseId =
                 IF FirstOf(reqs[r].req.params.caseId, reqs[r].req.body.caseId,
                            reqs[r].req.query.caseId) # Null
                 THEN FirstOf(reqs[r].req.params.caseId, reqs[r].req.body.caseId,
                              reqs[r].req.query.caseId)
                 ELSE IF Truthy(reqs[r].req.caseData.case_id)
                 THEN reqs[r].req.caseData.case_id
                 ELSE Null

\* the evidence id is in the body and in the query string and the body's is
\* derived; the case id is in none of the three places and the attached
\* case's is derived
C24_Witness ==
    \E r \in 1..Len(reqs) :
        /\ ~Truthy(reqs[r].req.params.evidenceId)
        /\ Truthy(reqs[r].req.query.evidenceId)
        /\ reqs[r].derived.evidenceId = reqs[r].req.body.evidenceId
        /\ reqs[r].derived.evidenceId # Null
        /\ FirstOf(reqs[r].req.params.caseId, reqs[r].req.body.caseId,
                   reqs[r].req.query.caseId) = Null
        /\ reqs[r].derived.caseId = "CASE-D"

\* the id in the payload of a response: body.evidence.id, else
\* body.evidence.evidence_id, else body.evidenceId; null when it has none
IdInPayload(body) ==
    IF Truthy(body.evidence.id) THEN body.evidence.id
    ELSE IF Truthy(body.evidence.evidence_id) THEN body.evidence.evidence_id
    ELSE IF Truthy(body.evidenceId) THEN body.evidenceId
    ELSE Null

\* C25: the evidence id of the event dispatched at response time is the id
\* in the payload of the response when it has one, and the id derived at
\* arrival otherwise: a payload without id does not erase it.
C25_ResponseEvidenceId ==
    \A r \in 1..Len(reqs) : \A w \in ResponseWrites(reqs[r]) :
        w.arg.evidenceId =
           IF IdInPayload(reqs[r].produced.body) # Null
           THEN IdInPayload(reqs[r].produced.body)
           ELSE reqs[r].derived.evidenceId

\* a payload whose evidence has empty ids and that has an evidenceId of its
\* own has overridden the id derived at arrival
C25_Witness ==
    \E r \in 1..Len(reqs) : \E w \in ResponseWrites(reqs[r]) :
        /\ reqs[r].produced.body = Body(Evidence("", ""), "EVID-7", Undefined)
        /\ Truthy(reqs[r].derived.evidenceId)
        /\ w.arg.evidenceId = "EVID-7"

\* an authenticated identity is attached to the request
Authenticated(req) == req.user.is = "object"

\* the id of the identity: its wallet address, else its id
IdentityOf(user) ==
    IF Truthy(user.wallet_address) THEN user.wallet_address ELSE user.id

\* C26 (as claimed): with an authenticated identity attached, the actor is
\* the identity's id (wallet address, else id) and the role the identity's
\* role; otherwise the actor is the wallet address of the header and the
\* role is "unknown".
C26_ActorAndRole ==
    \A r \in 1..Len(reqs) :
        ~reqs[r].excluded =>
           IF Authenticated(reqs[r].req)
           THEN /\ reqs[r].derived.userId = IdentityOf(reqs[r].req.user)
                /\ reqs[r].derived.userRole = reqs[r].req.user.role
           ELSE /\ reqs[r].derived.userId = reqs[r].req.headers.xUserWallet
                /\ reqs[r].derived.userRole = "unknown"

\* C26 (amended): with an authenticated identity attached, the actor is the
\* identity's id (wallet address, else id) and the role the identity's
\* role, "user" when it has none; otherwise the actor is the wallet address
\* of the header, "anonymous" when there is none, and the role is the role
\* set on the request, "unknown" when there is none.
C26_ActorAndRoleWithDefaults ==
    \A r \in 1..Len(reqs) :
        ~reqs[r].excluded =>
           IF Authenticated(reqs[r].req)
           THEN /\ reqs[r].derived.userId = IdentityOf(reqs[r].req.user)
                /\ reqs[r].derived.userRole =
                      IF Truthy(reqs[r].req.user.role) THEN reqs[r].req.user.role
                      ELSE "user"
           ELSE /\ reqs[r].derived.userId =
                      IF Truthy(reqs[r].req.headers.xUserWallet)
                      THEN reqs[r].req.headers.xUserWallet
                      ELSE "anonymous"
                /\ reqs[r].derived.userRole =
                      IF Truthy(reqs[r].req.userRole) THEN reqs[r].req.userRole
                      ELSE "unknown"

\* a request without identity and without wallet header, with a role set
\* on it, is the request of "anonymous" in that role
C26_Witness ==
    \E r \in 1..Len(reqs) :
        /\ ~Authenticated(reqs[r].req)
        /\ ~Truthy(reqs[r].req.headers.xUserWallet)
        /\ Truthy(reqs[r].req.userRole)
        /\ reqs[r].derived.userId = "anonymous"
        /\ reqs[r].derived.userRole = reqs[r].req.userRole

\* the writes dispatched at the arrival of request q whose details have the
\* request body
RequestWritesWithBody(q) ==
    {q.writes[k] : k \in {i \in 1..Len(q.writes) :
                            /\ q.writes[i].when = "request"
                            /\ q.writes[i].arg.details.requestBody # <<>>}}

\* the field as the claim has it in the sanitized copy
SanitizedAsClaimed(name, value) ==
    IF name \in {"password", "token", "secret", "key", "fileData", "file_data"}
         /\ value.t # "undefined"
    THEN FieldValue("string", 10, 0, "[REDACTED]")
    ELSE IF value.t = "string" /\ value.len > 500
    THEN FieldValue("string", 500 + 14, 500, "...[TRUNCATED]")
    ELSE value

\* C27 (as claimed): the request body in the details of an event is a
\* sanitized copy: every field of the body with a sensitive name holds the
\* redaction marker, every other string longer than 500 characters is its
\* first 500 characters and the truncation marker, every other field is
\* unchanged, and the body of the request is as it was sent.
C27_BodySanitized ==
    \A r \in 1..Len(reqs) :
        /\ reqs[r].req \in RequestShapes
        /\ \A w \in RequestWritesWithBody(reqs[r]) :
              \A name \in FieldNames :
                  w.arg.details.requestBody[1].fields[name] =
                     SanitizedAsClaimed(name, reqs[r].req.body.fields[name])

\* C29 (as claimed): every event the middleware dispatches passes the
\* validation of logAction: its action type and its status are in their
\* sets and its userId is not empty, whoever sent the request, whatever its
\* method and path and whatever the status code of the response; so no
\* call of the middleware is answered with null before the store is asked.
C29_DispatchedEventsValid ==
    /\ \A r \in 1..Len(reqs) : \A k \in 1..Len(reqs[r].writes) :
          /\ reqs[r].writes[k].arg.actionType \in ACTION_TYPES
          /\ reqs[r].writes[k].arg.status \in ACTION_STATUS
          /\ reqs[r].writes[k].arg.userId \notin {Undefined, Null, ""}
    /\ ~(last.kind = "null" /\ last.store = "none")

-----------------------------------------------------------------------------
(* Properties of the writes under termination *)

\* the process terminated in this step
Terminated == inflight' = {} /\ reqs' = <<>> /\ store' = store /\ last' = last

\* the write w settled in this step
SettledNow(w) == inflight' = inflight \ {w} /\ last'.cid = w.cid

\* C28: logging is at most once.  The persisted events and the writes in
\* flight are never more than the dispatched writes; a step persists at
\* most one event, the event of a write in flight that is in flight no
\* longer; a write that is in flight after a step and was not before is a
\* new call; a write leaves only by settling or when the process
\* terminates, not when its request finishes; and a write in flight can
\* always settle, whatever has become of its request.
C28_AtMostOnce ==
    /\ [](\A w \in inflight : ENABLED logActionResume(w, "up"))
    /\ [][/\ Len(store') + Cardinality(inflight') <= called'
          /\ Len(store') <= Len(store) + 1
          /\ Len(store') = Len(store) + 1 =>
                \E w \in inflight :
                    /\ w \notin inflight'
                    /\ store' = Append(store, NewRow(w.entry, nextId))
          /\ \A w \in inflight' \ inflight :
                called' = called + 1 /\ w.cid = called'
          /\ inflight' # inflight /\ inflight' \subseteq inflight =>
                Terminated \/ \E w \in inflight : SettledNow(w)
          /\ Len(reqs') < Len(reqs) /\ ~Terminated => inflight' = inflight]_vars

\* a write was submitted and never settled: the process terminated while it
\* was in flight, and nothing is persisted
C28_Witness ==
    /\ submitted >= 1
    /\ inflight = {}
    /\ last = NoCall
    /\ store = <<>>

-----------------------------------------------------------------------------
(* Properties of the roles of the persisted events *)

\* the nine roles and "unknown"
NineRolesOrUnknown ==
    {"admin", "user", "investigator", "forensic_analyst", "legal_professional",
     "court_official", "evidence_manager", "auditor", "public_viewer", "unknown"}

\* the call settled in this step carried a role that is none of them
SettledWithOtherRole ==
    /\ last' # last
    /\ PassesValidator(last'.arg)
    /\ last'.arg.userRole \notin {Undefined, Null, ""}
    /\ last'.arg.userRole \notin NineRolesOrUnknown

\* C30: the user_role of every persisted event is one of the nine roles or
\* "unknown", although logAction does not validate the role: a call whose
\* event passes the validation and carries another role resolves to null
\* and persists nothing.
C30_PersistedRoles ==
    /\ [](\A i \in 1..Len(store) : store[i].user_role \in NineRolesOrUnknown)
    /\ [][SettledWithOtherRole => last'.kind = "null" /\ store' = store]_vars

\* the store was up and refused the event of a valid call with the role
\* "superuser"
C30_Witness ==
    /\ last.arg.userRole = "superuser"
    /\ last.kind = "null"
    /\ last.store = "constraint"

====
